---- MODULE Spec2Model ----
(***************************************************************************)
(* FlowPy: the label rule table and security state (flowpy/state.py) and  *)
(* the flow evaluator (flowpy/evaluators.py, flowpy/main.py).              *)
(*                                                                         *)
(* Strings (comments, patterns, names, labels) are sequences of           *)
(* one-character strings, so that splitting, stripping and wildcard       *)
(* matching are computed character by character as the code does.         *)
(* Objects live in a heap: State objects, __Rule objects and the          *)
(* warnings lists are addressed by their index, so that sharing of a      *)
(* rule object or of a warnings list between two states is visible.       *)
(***************************************************************************)
EXTENDS Integers, Sequences, FiniteSets, TLC

VARIABLES
    heap,       \* [State, Rule, list]: the objects allocated so far
    tree,       \* FlowPy.run: the AST of the source (ast.parse)
    functions,  \* Source.functions: function name -> address of its State
    stack,      \* the evaluators whose evaluate() is running, innermost last
    ret,        \* the State returned by the evaluate() that returned last
    phase,      \* FlowPy.run: "init", "running", "done", or the exception raised
    result,     \* FlowPy.run: the list it returns
    handles,    \* driver of the State API: the State objects it holds
    origin,     \* driver: origin[i] = index of the handle that handles[i] was copied from (0: State())
    last,       \* driver: the last call made on the State API
    ops         \* driver: number of calls made

evalvars == <<tree, functions, stack, ret, phase, result>>
drivervars == <<handles, origin, last, ops>>
vars == <<heap, tree, functions, stack, ret, phase, result,
          handles, origin, last, ops>>

-----------------------------------------------------------------------------
(* Bounds of the State-API driver *)
MaxStates == 3
MaxOps == 4

-----------------------------------------------------------------------------
(* Strings *)

Range(s) == {s[i] : i \in 1..Len(s)}

Whitespace == {" ", "\t", "\n"}

RECURSIVE lstrip(_)
lstrip(s) ==
    IF s # <<>> /\ Head(s) \in Whitespace THEN lstrip(Tail(s)) ELSE s

RECURSIVE rstrip(_)
rstrip(s) ==
    IF s # <<>> /\ s[Len(s)] \in Whitespace
    THEN rstrip(SubSeq(s, 1, Len(s) - 1)) ELSE s

strip(s) == rstrip(lstrip(s))

\* str.split(sep): the pieces between the occurrences of sep, empty ones kept
RECURSIVE split(_, _)
split(s, sep) ==
    IF sep \notin Range(s) THEN <<s>>
    ELSE LET k == CHOOSE i \in 1..Len(s) :
                    s[i] = sep /\ \A j \in 1..(i - 1) : s[j] # sep
         IN  <<SubSeq(s, 1, k - 1)>> \o split(SubSeq(s, k + 1, Len(s)), sep)

\* filter(bool, xs) on a list of strings: drops the empty ones
filter_bool(xs) == SelectSeq(xs, LAMBDA x : x # <<>>)

RECURSIVE map_strip(_)
map_strip(xs) ==
    IF xs = <<>> THEN <<>> ELSE <<strip(Head(xs))>> \o map_strip(Tail(xs))

\* the character class [a-zA-Z0-9_\*]
PatternChars ==
    {"a", "b", "c", "d", "e", "f", "g", "h", "i", "j", "k", "l", "m",
     "n", "o", "p", "q", "r", "s", "t", "u", "v", "w", "x", "y", "z",
     "A", "B", "C", "D", "E", "F", "G", "H", "I", "J", "K", "L", "M",
     "N", "O", "P", "Q", "R", "S", "T", "U", "V", "W", "X", "Y", "Z",
     "0", "1", "2", "3", "4", "5", "6", "7", "8", "9", "_", "*"}

\* re.findall(r"[a-zA-Z0-9_\*]+", s): the maximal runs of pattern characters
RECURSIVE findall(_)
findall(s) ==
    IF s = <<>> THEN <<>>
    ELSE IF Head(s) \notin PatternChars THEN findall(Tail(s))
    ELSE LET n == CHOOSE k \in 1..Len(s) :
                    /\ \A j \in 1..k : s[j] \in PatternChars
                    /\ (k = Len(s) \/ s[k + 1] \notin PatternChars)
         IN  <<SubSeq(s, 1, n)>> \o findall(SubSeq(s, n + 1, Len(s)))

\* restr.replace("*", ".*")
RECURSIVE replace_star(_)
replace_star(s) ==
    IF s = <<>> THEN <<>>
    ELSE (IF Head(s) = "*" THEN <<".", "*">> ELSE <<Head(s)>>)
         \o replace_star(Tail(s))

\* Matching of a regex built by __Rule.__init__ (literals, ".*", final "$")
\* against the rest of the value: "." matches any character but a newline,
\* "$" matches at the end of the value or just before a final newline.
RECURSIVE re_match(_, _)
re_match(r, v) ==
    IF r = <<>> THEN TRUE
    ELSE IF r = <<"$">> THEN v = <<>> \/ v = <<"\n">>
    ELSE IF Len(r) >= 2 /\ r[1] = "." /\ r[2] = "*"
    THEN \E k \in 0..Len(v) :
            /\ \A j \in 1..k : v[j] # "\n"
            /\ re_match(SubSeq(r, 3, Len(r)), SubSeq(v, k + 1, Len(v)))
    ELSE /\ v # <<>>
         /\ v[1] = r[1]
         /\ re_match(Tail(r), Tail(v))

\* re.search for the regex without its final "$": a match of a prefix
re_search_prefix(regex, value) ==
    re_match(SubSeq(regex, 2, Len(regex) - 1), value)

\* re.search(regex, value) for a regex that starts with "^"
re_search(regex, value) == re_match(Tail(regex), value)

-----------------------------------------------------------------------------
(* State.__Rule *)

\* __Rule.__init__
Rule(restr, labels) ==
    [regex |-> <<"^">> \o replace_star(restr) \o <<"$">>, labels |-> labels]

\* __Rule.add, on the rule object at address r
Rule_add(h, r, labels) ==
    [h EXCEPT !.Rule[r].labels = @ \cup labels]

\* __Rule.applies_to
applies_to(rule, value) == re_search(rule.regex, value)

-----------------------------------------------------------------------------
(* State *)

Set(xs) == Range(xs)

EmptyHeap == [State |-> <<>>, Rule |-> <<>>, list |-> <<>>]

\* State.__init__: a new State object with its own warnings list
State(h) ==
    [h EXCEPT !.list = Append(@, <<>>),
              !.State = Append(@, [rules |-> <<>>, pc |-> {}, used |-> {},
                                   warnings |-> Len(h.list) + 1])]

\* the address of the object allocated last
NewState(h) == Len(h.State)
NewRule(h) == Len(h.Rule)

\* the position of key in the (insertion-ordered) dict, 0 if absent
Index(rules, key) ==
    IF \E i \in 1..Len(rules) : rules[i].key = key
    THEN CHOOSE i \in 1..Len(rules) : rules[i].key = key
    ELSE 0

\* self.__rules[key] = r: replaces the value of an existing key in place,
\* appends a new key
SetItem(rules, key, r) ==
    IF Index(rules, key) # 0
    THEN [rules EXCEPT ![Index(rules, key)].rule = r]
    ELSE Append(rules, [key |-> key, rule |-> r])

AllocRule(h, rule) == [h EXCEPT !.Rule = Append(@, rule)]

\* State.get_pc
get_pc(h, s) == h.State[s].pc

\* get_labels in which a clearing rule only discards the labels gathered
\* from the rules before it
RECURSIVE get_labels_loop_reset(_, _, _, _)
get_labels_loop_reset(h, rules, variable, res) ==
    IF rules = <<>> THEN res
    ELSE LET rule == h.Rule[Head(rules).rule]
         IN  IF applies_to(rule, variable)
             THEN IF Cardinality(rule.labels) = 0
                  THEN get_labels_loop_reset(h, Tail(rules), variable, {})
                  ELSE get_labels_loop_reset(h, Tail(rules), variable,
                                             res \cup rule.labels)
             ELSE get_labels_loop_reset(h, Tail(rules), variable, res)

\* State.get_labels
RECURSIVE get_labels_loop(_, _, _, _)
get_labels_loop(h, rules, variable, res) ==
    IF rules = <<>> THEN res
    ELSE LET rule == h.Rule[Head(rules).rule]
         IN  IF applies_to(rule, variable)
             THEN IF Cardinality(rule.labels) = 0
                  THEN {}
                  ELSE get_labels_loop(h, Tail(rules), variable,
                                       res \cup rule.labels)
             ELSE get_labels_loop(h, Tail(rules), variable, res)

get_labels(h, s, variable) ==
    get_labels_loop(h, h.State[s].rules, variable, {})

\* State.get_used(0): the labels of the used names
get_used(h, s) ==
    UNION {get_labels(h, s, var) : var \in h.State[s].used}

\* State.get_used(1): used name -> labels
get_used_vars(h, s) ==
    [var \in h.State[s].used |-> get_labels(h, s, var)]

\* State.set_used: a str is added, anything else is iterated over
set_used(h, s, var) ==
    [h EXCEPT !.State[s].used = @ \cup {var}]

set_used_iter(h, s, names) ==
    [h EXCEPT !.State[s].used = @ \cup names]

\* the used names of the other state left out
update_used_skip(h, s, other) == h

\* State.update_used
update_used(h, s, other) ==
    [h EXCEPT !.State[s].used = @ \cup h.State[other].used]

\* update_pc that overwrites the PC
update_pc_overwrite(h, s, labels) ==
    [h EXCEPT !.State[s].pc = labels]

\* State.update_pc: a State argument stands for its PC
update_pc(h, s, labels) ==
    [h EXCEPT !.State[s].pc = @ \cup labels]

update_pc_State(h, s, other) == update_pc(h, s, get_pc(h, other))

\* error that puts the violation at the front of the list
error_front(h, s, err) ==
    [h EXCEPT !.list[h.State[s].warnings] = <<err>> \o @]

\* State.error
error(h, s, err) ==
    [h EXCEPT !.list[h.State[s].warnings] = Append(@, err)]

\* State.get_warnings
get_warnings(h, s) == h.list[h.State[s].warnings]

\* the rule objects shared with the copy
deepcopy_rules_shared(h, rules) == [h |-> h, rules |-> rules]

\* deepcopy(self.__rules): every rule object of the dict is cloned
RECURSIVE deepcopy_rules(_, _)
deepcopy_rules(h, rules) ==
    IF rules = <<>> THEN [h |-> h, rules |-> <<>>]
    ELSE LET h1 == AllocRule(h, h.Rule[Head(rules).rule])
             rest == deepcopy_rules(h1, Tail(rules))
         IN  [h |-> rest.h,
              rules |-> <<[key |-> Head(rules).key, rule |-> NewRule(h1)]>>
                        \o rest.rules]

\* copy that gives the new State a copy of the warnings list
copy_own_warnings(h, s) ==
    LET h1 == State(h)
        n == NewState(h1)
        c == deepcopy_rules(h1, h.State[s].rules)
    IN  [c.h EXCEPT !.State[n] = [rules |-> c.rules,
                                  pc |-> h.State[s].pc,
                                  used |-> h.State[s].used,
                                  warnings |-> h1.State[n].warnings],
                    !.list[h1.State[n].warnings] = get_warnings(h, s)]

\* State.copy: the new State is NewState of the returned heap
copy(h, s) ==
    LET h1 == State(h)
        n == NewState(h1)
        c == deepcopy_rules(h1, h.State[s].rules)
    IN  [c.h EXCEPT !.State[n] = [rules |-> c.rules,
                                  pc |-> h.State[s].pc,
                                  used |-> h.State[s].used,
                                  warnings |-> h.State[s].warnings]]

\* combine that stores the rule of the other state whether or not the
\* pattern has a rule already
RECURSIVE combine_loop_store(_, _, _)
combine_loop_store(h, s, items) ==
    IF items = <<>> THEN h
    ELSE combine_loop_store(
            [h EXCEPT !.State[s].rules =
                        SetItem(@, Head(items).key, Head(items).rule)],
            s, Tail(items))

\* State.combine
RECURSIVE combine_loop(_, _, _)
combine_loop(h, s, items) ==
    IF items = <<>> THEN h
    ELSE LET regex == Head(items).key
             rule == Head(items).rule
             mine == h.State[s].rules
         IN  IF Index(mine, regex) = 0
             THEN combine_loop(
                    [h EXCEPT !.State[s].rules = SetItem(mine, regex, rule)],
                    s, Tail(items))
             ELSE combine_loop(
                    Rule_add(h, mine[Index(mine, regex)].rule,
                             h.Rule[rule].labels),
                    s, Tail(items))

combine(h, s, other) ==
    combine_loop(update_pc(h, s, h.State[other].pc), s, h.State[other].rules)

\* add_rules in which a clause of "()" only leaves a rule that exists alone
add_rule_keep(h, s, rule) ==
    LET parts == split(rule, ":")
    IN  IF Len(parts) # 2 THEN h
        ELSE IF findall(parts[1]) = <<>> THEN h
        ELSE
        LET regex == findall(parts[1])[1]
            labels == filter_bool(map_strip(split(parts[2], ",")))
            kept == SelectSeq(labels, LAMBDA x : x # <<"(", ")">>)
            mine == h.State[s].rules
        IN  IF regex = <<>> \/ labels = <<>> THEN h
            ELSE IF Index(mine, regex) = 0
            THEN LET h1 == AllocRule(h, Rule(regex, Set(kept)))
                 IN  [h1 EXCEPT !.State[s].rules =
                                    SetItem(mine, regex, NewRule(h1))]
            ELSE Rule_add(h, mine[Index(mine, regex)].rule, Set(kept))

\* add_rules in which a clause replaces the labels its pattern had
add_rule_replace(h, s, rule) ==
    LET parts == split(rule, ":")
    IN  IF Len(parts) # 2 THEN h
        ELSE IF findall(parts[1]) = <<>> THEN h
        ELSE
        LET regex == findall(parts[1])[1]
            labels == filter_bool(map_strip(split(parts[2], ",")))
            kept == SelectSeq(labels, LAMBDA x : x # <<"(", ")">>)
            mine == h.State[s].rules
        IN  IF regex = <<>> \/ labels = <<>> THEN h
            ELSE LET h1 == AllocRule(h, Rule(regex, Set(kept)))
                 IN  [h1 EXCEPT !.State[s].rules =
                                    SetItem(mine, regex, NewRule(h1))]

\* State.add_rules: one clause of the comment
add_rule(h, s, rule) ==
    LET parts == split(rule, ":")
    IN  IF Len(parts) # 2 THEN h                       \* ValueError
        ELSE IF findall(parts[1]) = <<>> THEN h         \* IndexError
        ELSE
        LET regex == findall(parts[1])[1]
            labels == filter_bool(map_strip(split(parts[2], ",")))
            kept == SelectSeq(labels, LAMBDA x : x # <<"(", ")">>)
            mine == h.State[s].rules
        IN  IF regex = <<>> \/ labels = <<>> THEN h
            ELSE IF Len(kept) = 0
            THEN LET h1 == AllocRule(h, Rule(regex, {}))
                 IN  [h1 EXCEPT !.State[s].rules =
                                    SetItem(mine, regex, NewRule(h1))]
            ELSE IF Index(mine, regex) = 0
            THEN LET h1 == AllocRule(h, Rule(regex, Set(kept)))
                 IN  [h1 EXCEPT !.State[s].rules =
                                    SetItem(mine, regex, NewRule(h1))]
            ELSE Rule_add(h, mine[Index(mine, regex)].rule, Set(kept))

\* add_rules that gives up at the first clause that is not "first:second"
RECURSIVE add_rules_loop_abort(_, _, _)
add_rules_loop_abort(h, s, rules) ==
    IF rules = <<>> THEN h
    ELSE IF Len(split(Head(rules), ":")) # 2 THEN h
    ELSE add_rules_loop_abort(add_rule(h, s, Head(rules)), s, Tail(rules))

RECURSIVE add_rules_loop(_, _, _)
add_rules_loop(h, s, rules) ==
    IF rules = <<>> THEN h
    ELSE add_rules_loop(add_rule(h, s, Head(rules)), s, Tail(rules))

add_rules(h, s, comment) ==
    add_rules_loop(h, s, filter_bool(split(strip(comment), ".")))

-----------------------------------------------------------------------------
(* The AST (module ast of the standard library), with its field names *)

Module(body) == [kind |-> "Module", body |-> body]
FunctionDef(name, body, lineno) ==
    [kind |-> "FunctionDef", name |-> name, body |-> body, lineno |-> lineno]
If(test, body, orelse, lineno) ==
    [kind |-> "If", test |-> test, body |-> body, orelse |-> orelse,
     lineno |-> lineno]
While(test, body, lineno) ==
    [kind |-> "While", test |-> test, body |-> body, lineno |-> lineno]
For(target, iter, body, lineno) ==
    [kind |-> "For", target |-> target, iter |-> iter, body |-> body,
     lineno |-> lineno]
Assign(targets, value, lineno) ==
    [kind |-> "Assign", targets |-> targets, value |-> value,
     lineno |-> lineno]
Expr(value, lineno) == [kind |-> "Expr", value |-> value, lineno |-> lineno]
Pass(lineno) == [kind |-> "Pass", lineno |-> lineno]
Return(value, lineno) ==
    [kind |-> "Return", value |-> value, lineno |-> lineno]
Call(func, args, lineno) ==
    [kind |-> "Call", func |-> func, args |-> args, lineno |-> lineno]
IfExp(test, body, orelse, lineno) ==
    [kind |-> "IfExp", test |-> test, body |-> body, orelse |-> orelse,
     lineno |-> lineno]
Compare(left, comparators, lineno) ==
    [kind |-> "Compare", left |-> left, comparators |-> comparators,
     lineno |-> lineno]
BinOp(left, right, lineno) ==
    [kind |-> "BinOp", left |-> left, right |-> right, lineno |-> lineno]
Attribute(value, attr, lineno) ==
    [kind |-> "Attribute", value |-> value, attr |-> attr, lineno |-> lineno]
Name(id, ctx, lineno) ==
    [kind |-> "Name", id |-> id, ctx |-> ctx, lineno |-> lineno]
Tuple(elts, ctx, lineno) ==
    [kind |-> "Tuple", elts |-> elts, ctx |-> ctx, lineno |-> lineno]
List(elts, ctx, lineno) ==
    [kind |-> "List", elts |-> elts, ctx |-> ctx, lineno |-> lineno]
Constant(lineno) == [kind |-> "Constant", lineno |-> lineno]

\* hasattr(node, "elts")
hasattr_elts(node) == node.kind \in {"Tuple", "List", "Set"}

-----------------------------------------------------------------------------
(* flowpy/arguments.py *)

MAIN_SCRIPT ==
    <<"_", "_", "g", "l", "o", "b", "a", "l", "_", "s", "c", "r", "i", "p",
      "t", "_", "_">>

FLOWPY_PREFIX == <<"f", "p">>

-----------------------------------------------------------------------------
(* flowpy/errors.py *)

FlowVar(name, labels) == [name |-> name, labels |-> labels]

\* FlowError.__init__: info is kept as the set of labels the message names
FlowError(type, node, state, var_to, info) ==
    [type |-> type, node |-> node, state |-> state, line |-> node.lineno,
     var_to |-> var_to, info |-> info]

ImplicitFlowError(node, state, var_to, info) ==
    FlowError("ImplicitFlowError", node, state, var_to, info)

ExplicitFlowError(node, state, var_to, info) ==
    FlowError("ExplicitFlowError", node, state, var_to, info)

-----------------------------------------------------------------------------
(* flowpy/evaluators.py: one frame of the stack per running evaluate() *)

\* the node kinds Evaluator.from_AST dispatches on
Dispatched ==
    {"If", "Assign", "Expr", "Call", "FunctionDef", "Module", "While",
     "Pass", "IfExp", "Compare", "Name", "Tuple", "Constant", "For"}

\* the evaluator class from_AST selects
EvaluatorOf(node) ==
    IF node.kind \in Dispatched THEN node.kind ELSE "Unimplemented"

\* the constructors combining the state they are given into the stored
\* rules instead
from_AST_into_stored(h, node, state) ==
    LET key == IF node.kind = "FunctionDef" THEN node.name ELSE MAIN_SCRIPT
        h1 == IF /\ node.kind \in {"FunctionDef", "Module"}
                 /\ key \in DOMAIN functions
              THEN combine(h, functions[key], state)
              ELSE h
    IN  [h |-> h1,
         frame |-> [node |-> node, state |-> state, at |-> "start",
                    i |-> 1, j |-> 1, states |-> <<>>]]

\* Evaluator.from_AST: constructs the evaluator; the constructors of
\* FunctionDefEvaluator and ModuleEvaluator combine the declared rules
\* into the state they are given
from_AST(h, node, state) ==
    LET key == IF node.kind = "FunctionDef" THEN node.name ELSE MAIN_SCRIPT
        h1 == IF /\ node.kind \in {"FunctionDef", "Module"}
                 /\ key \in DOMAIN functions
              THEN combine(h, state, functions[key])
              ELSE h
    IN  [h |-> h1,
         frame |-> [node |-> node, state |-> state, at |-> "start",
                    i |-> 1, j |-> 1, states |-> <<>>]]

Top == stack[Len(stack)]
Callers == SubSeq(stack, 1, Len(stack) - 1)

Running(evaluator) ==
    /\ phase = "running"
    /\ stack # <<>>
    /\ EvaluatorOf(Top.node) = evaluator

Cfg(h, st, r, ph) == [heap |-> h, stack |-> st, ret |-> r, phase |-> ph]

Becomes(cfg) ==
    /\ heap' = cfg.heap
    /\ stack' = cfg.stack
    /\ ret' = cfg.ret
    /\ phase' = cfg.phase
    /\ UNCHANGED <<tree, functions, result, handles, origin, last, ops>>

\* return sid
Returns(h, sid) == Cfg(h, Callers, sid, phase)

\* an exception, which nothing catches, ends the run
Raises(h, exception) == Cfg(h, <<>>, ret, exception)

\* Evaluator.from_AST(node, sid, ...).evaluate(), the caller then being at f
Invoke(h, f, node, sid) ==
    LET c == from_AST(h, node, sid)
    IN  Cfg(c.h, Append(Append(Callers, f), c.frame), ret, phase)

\* the evaluator given the state itself instead of a copy
InvokeShared(h, f, node, src) == Invoke(h, f, node, src)

\* Evaluator.from_AST(node, src.copy(), ...).evaluate()
InvokeCopy(h, f, node, src) ==
    LET h1 == copy(h, src)
    IN  Invoke(h1, f, node, NewState(h1))

\* the loop that ends after its first item
LoopFrom_first(h, f, items, i) ==
    IF i <= Len(items) /\ i <= 1
    THEN InvokeCopy(h, [f EXCEPT !.at = "loop", !.i = i], items[i], f.state)
    ELSE Returns(h, f.state)

\* for nd in items: from_AST(nd, self.state.copy(), ...).evaluate(), from
\* item i on; return self.state after the last
LoopFrom(h, f, items, i) ==
    IF i <= Len(items)
    THEN InvokeCopy(h, [f EXCEPT !.at = "loop", !.i = i], items[i], f.state)
    ELSE Returns(h, f.state)

\* the default evaluator refusing the node
UnimplementedEvaluator_evaluate_raise ==
    /\ Running("Unimplemented")
    /\ Becomes(Raises(heap, "NotImplementedError"))

\* UnimplementedEvaluator.evaluate
UnimplementedEvaluator_evaluate ==
    /\ Running("Unimplemented")
    /\ Becomes(Returns(heap, Top.state))

\* the store check with the PC checked only when the used labels pass
NameEvaluator_store_elif(h, node, state) ==
    LET curr_labels == get_labels(h, state, node.id)
        used_labels == get_used(h, state)
    IN  IF ~(used_labels \subseteq curr_labels)
        THEN error(h, state,
                   ExplicitFlowError(node, state,
                                     FlowVar(node.id, curr_labels),
                                     used_labels \ curr_labels))
        ELSE IF ~(get_pc(h, state) \subseteq curr_labels)
        THEN error(h, state,
                   ImplicitFlowError(node, state,
                                     FlowVar(node.id, curr_labels),
                                     get_pc(h, state) \ curr_labels))
        ELSE h

\* NameEvaluator.evaluate
NameEvaluator_store(h, node, state) ==
    LET curr_labels == get_labels(h, state, node.id)
        used_labels == get_used(h, state)
        h1 == IF ~(used_labels \subseteq curr_labels)
              THEN error(h, state,
                         ExplicitFlowError(node, state,
                                           FlowVar(node.id, curr_labels),
                                           used_labels \ curr_labels))
              ELSE h
    IN  IF ~(get_pc(h1, state) \subseteq curr_labels)
        THEN error(h1, state,
                   ImplicitFlowError(node, state,
                                     FlowVar(node.id, curr_labels),
                                     get_pc(h1, state) \ curr_labels))
        ELSE h1

NameEvaluator_evaluate ==
    /\ Running("Name")
    /\ LET node == Top.node
           h1 == IF node.ctx = "Store"
                 THEN NameEvaluator_store(heap, node, Top.state)
                 ELSE IF node.ctx = "Load"
                 THEN set_used(heap, Top.state, node.id)
                 ELSE heap
       IN  Becomes(Returns(h1, Top.state))

\* TupleEvaluator.evaluate
TupleEvaluator_evaluate ==
    /\ Running("Tuple")
    /\ \/ /\ Top.at = "start"
          /\ Becomes(LoopFrom(heap, Top, Top.node.elts, 1))
       \/ /\ Top.at = "loop"
          /\ Becomes(LoopFrom(update_used(heap, Top.state, ret), Top,
                              Top.node.elts, Top.i + 1))

\* ConstantEvaluator.evaluate
ConstantEvaluator_evaluate ==
    /\ Running("Constant")
    /\ Becomes(Returns(heap, Top.state))

\* FunctionDefEvaluator.evaluate
FunctionDefEvaluator_evaluate ==
    /\ Running("FunctionDef")
    /\ \/ /\ Top.at = "start"
          /\ Becomes(LoopFrom(heap, Top, Top.node.body, 1))
       \/ /\ Top.at = "loop"
          /\ Becomes(LoopFrom(heap, Top, Top.node.body, Top.i + 1))

\* the conditional expression taking the used names of its branches
IfExpEvaluator_evaluate_branches ==
    /\ Running("IfExp")
    /\ \/ /\ Top.at = "start"
          /\ Becomes(InvokeCopy(heap, [Top EXCEPT !.at = "test"],
                                Top.node.test, Top.state))
       \/ /\ Top.at = "test"
          /\ LET used == get_used(heap, ret)
                 h1 == set_used_iter(heap, Top.state, used)
                 h2 == update_pc(h1, Top.state, used)
             IN  Becomes(InvokeCopy(h2, [Top EXCEPT !.at = "body"],
                                    Top.node.body, Top.state))
       \/ /\ Top.at = "body"
          /\ Becomes(InvokeCopy(update_used(heap, Top.state, ret),
                                [Top EXCEPT !.at = "orelse"],
                                Top.node.orelse, Top.state))
       \/ /\ Top.at = "orelse"
          /\ Becomes(Returns(update_used(heap, Top.state, ret), Top.state))

\* IfExpEvaluator.evaluate
IfExpEvaluator_evaluate ==
    /\ Running("IfExp")
    /\ \/ /\ Top.at = "start"
          /\ Becomes(InvokeCopy(heap, [Top EXCEPT !.at = "test"],
                                Top.node.test, Top.state))
       \/ /\ Top.at = "test"
          /\ LET used == get_used(heap, ret)
                 h1 == set_used_iter(heap, Top.state, used)
                 h2 == update_pc(h1, Top.state, used)
             IN  Becomes(InvokeCopy(h2, [Top EXCEPT !.at = "body"],
                                    Top.node.body, Top.state))
       \/ /\ Top.at = "body"
          /\ Becomes(InvokeCopy(heap, [Top EXCEPT !.at = "orelse"],
                                Top.node.orelse, Top.state))
       \/ /\ Top.at = "orelse"
          /\ Becomes(Returns(heap, Top.state))

\* CompareEvaluator.evaluate
CompareEvaluator_evaluate ==
    /\ Running("Compare")
    /\ LET items == Top.node.comparators \o <<Top.node.left>>
       IN  \/ /\ Top.at = "start"
              /\ Becomes(LoopFrom(heap, Top, items, 1))
           \/ /\ Top.at = "loop"
              /\ Becomes(LoopFrom(update_used(heap, Top.state, ret), Top,
                                  items, Top.i + 1))

\* IfEvaluator.evaluate
IfEvaluator_evaluate ==
    /\ Running("If")
    /\ \/ /\ Top.at = "start"
          /\ Becomes(InvokeCopy(heap, [Top EXCEPT !.at = "test"],
                                Top.node.test, Top.state))
       \/ /\ Top.at = "test"
          /\ Becomes(LoopFrom(update_pc(heap, Top.state, get_used(heap, ret)),
                              Top, Top.node.body \o Top.node.orelse, 1))
       \/ /\ Top.at = "loop"
          /\ Becomes(LoopFrom(heap, Top, Top.node.body \o Top.node.orelse,
                              Top.i + 1))

\* the used names taken from the first of the states only
update_used_first(h, state, states) ==
    IF states = <<>> THEN h ELSE update_used(h, state, Head(states))

\* for s in states: state.update_used(s)
RECURSIVE update_used_each(_, _, _)
update_used_each(h, state, states) ==
    IF states = <<>> THEN h
    ELSE update_used_each(update_used(h, state, Head(states)), state,
                          Tail(states))

\* states[0] whatever the element
states_first(states, i) == states[1]

\* states[i], for the element i (from 1) of a target with elts
states_at(states, i) == states[i]

\* the loop over the targets checking the elements that have no state of
\* their own against the last state
RECURSIVE AssignEvaluator_targets_all(_, _, _, _)
AssignEvaluator_targets_all(h, f, i, j) ==
    IF i > Len(f.node.targets) THEN Returns(h, f.state)
    ELSE LET tgt == f.node.targets[i]
             g == [f EXCEPT !.at = "targets", !.i = i, !.j = j]
         IN  IF hasattr_elts(tgt)
             THEN IF j > Len(tgt.elts)
                  THEN AssignEvaluator_targets_all(h, f, i + 1, 1)
                  ELSE InvokeCopy(h, g, tgt.elts[j],
                                  f.states[IF j <= Len(f.states) THEN j
                                           ELSE Len(f.states)])
             ELSE LET h1 == copy(h, f.state)
                      state == NewState(h1)
                      h2 == update_used_each(h1, state, f.states)
                  IN  Invoke(h2, g, tgt, state)

\* AssignEvaluator.evaluate, the loop over the targets from target i,
\* element j on (j counts the states for a target with elts)
RECURSIVE AssignEvaluator_targets(_, _, _, _)
AssignEvaluator_targets(h, f, i, j) ==
    IF i > Len(f.node.targets) THEN Returns(h, f.state)
    ELSE LET tgt == f.node.targets[i]
             g == [f EXCEPT !.at = "targets", !.i = i, !.j = j]
         IN  IF hasattr_elts(tgt)
             THEN IF j > Len(f.states)
                  THEN AssignEvaluator_targets(h, f, i + 1, 1)
                  ELSE IF j > Len(tgt.elts)
                  THEN Raises(h, "IndexError")
                  ELSE InvokeCopy(h, g, tgt.elts[j], states_at(f.states, j))
             ELSE LET h1 == copy(h, f.state)
                      state == NewState(h1)
                      h2 == update_used_each(h1, state, f.states)
                  IN  Invoke(h2, g, tgt, state)

\* AssignEvaluator.evaluate
AssignEvaluator_evaluate ==
    /\ Running("Assign")
    /\ LET value == Top.node.value
       IN  \/ /\ Top.at = "start"
              /\ hasattr_elts(value)
              /\ IF value.elts = <<>>
                 THEN Becomes(AssignEvaluator_targets(heap, Top, 1, 1))
                 ELSE Becomes(InvokeCopy(heap, [Top EXCEPT !.at = "elts"],
                                         value.elts[1], Top.state))
           \/ /\ Top.at = "elts"
              /\ LET f == [Top EXCEPT !.states = Append(@, ret)]
                 IN  IF Len(f.states) < Len(value.elts)
                     THEN Becomes(InvokeCopy(heap, f,
                                             value.elts[Len(f.states) + 1],
                                             Top.state))
                     ELSE Becomes(AssignEvaluator_targets(heap, f, 1, 1))
           \/ /\ Top.at = "start"
              /\ ~hasattr_elts(value)
              /\ Becomes(InvokeCopy(heap, [Top EXCEPT !.at = "value"],
                                    value, Top.state))
           \/ /\ Top.at = "value"
              /\ Becomes(AssignEvaluator_targets(
                            heap, [Top EXCEPT !.states = <<ret>>], 1, 1))
           \/ /\ Top.at = "targets"
              /\ IF hasattr_elts(Top.node.targets[Top.i])
                 THEN Becomes(AssignEvaluator_targets(heap, Top, Top.i,
                                                      Top.j + 1))
                 ELSE Becomes(AssignEvaluator_targets(heap, Top, Top.i + 1,
                                                      1))

\* ExprEvaluator.evaluate: returns what the wrapped node's evaluate returns
ExprEvaluator_evaluate ==
    /\ Running("Expr")
    /\ \/ /\ Top.at = "start"
          /\ Becomes(InvokeCopy(heap, [Top EXCEPT !.at = "value"],
                                Top.node.value, Top.state))
       \/ /\ Top.at = "value"
          /\ Becomes(Returns(heap, ret))

\* the call check made on the labels of the callee instead of the PC
CallEvaluator_check_callee(h, node, state) ==
    IF get_labels(h, state, node.func.id) # {}
    THEN error(h, state,
               ImplicitFlowError(node, state,
                                 FlowVar(node.func.id,
                                         get_labels(h, state, node.func.id)),
                                 get_pc(h, state)))
    ELSE h

\* the call check with the PC given as the labels of the callee
CallEvaluator_check_labels(h, node, state) ==
    IF get_pc(h, state) # {}
    THEN error(h, state,
               ImplicitFlowError(node, state,
                                 FlowVar(node.func.id, get_pc(h, state)),
                                 get_pc(h, state)))
    ELSE h

\* CallEvaluator.evaluate: if self.state.get_pc(): self.state.error(...),
\* for a callee that is a Name
CallEvaluator_check(h, node, state) ==
    IF get_pc(h, state) # {}
    THEN error(h, state,
               ImplicitFlowError(node, state,
                                 FlowVar(node.func.id,
                                         get_labels(h, state, node.func.id)),
                                 get_pc(h, state)))
    ELSE h

\* CallEvaluator.evaluate
CallEvaluator_evaluate ==
    /\ Running("Call")
    /\ \/ /\ Top.at = "start"
          /\ Becomes(InvokeCopy(heap, [Top EXCEPT !.at = "func"],
                                Top.node.func, Top.state))
       \/ /\ Top.at = "func"
          /\ LET node == Top.node
                 h1 == update_pc_State(heap, Top.state, ret)
             IN  IF get_pc(h1, Top.state) # {} /\ node.func.kind # "Name"
                 THEN Becomes(Raises(h1, "AttributeError"))
                 ELSE IF node.func.kind # "Name"
                 THEN Becomes(LoopFrom(h1, Top, node.args, 1))
                 ELSE Becomes(LoopFrom(CallEvaluator_check(h1, node,
                                                           Top.state),
                                       Top, node.args, 1))
       \/ /\ Top.at = "loop"
          /\ Becomes(LoopFrom(update_used(heap, Top.state, ret), Top,
                              Top.node.args, Top.i + 1))

\* ForEvaluator.evaluate
ForEvaluator_evaluate ==
    /\ Running("For")
    /\ \/ /\ Top.at = "start"
          /\ Becomes(InvokeCopy(heap, [Top EXCEPT !.at = "iter"],
                                Top.node.iter, Top.state))
       \/ /\ Top.at = "iter"
          /\ Becomes(LoopFrom(update_pc(heap, Top.state, get_used(heap, ret)),
                              Top, Top.node.body, 1))
       \/ /\ Top.at = "loop"
          /\ Becomes(LoopFrom(heap, Top, Top.node.body, Top.i + 1))

\* WhileEvaluator.evaluate
WhileEvaluator_evaluate ==
    /\ Running("While")
    /\ \/ /\ Top.at = "start"
          /\ Becomes(InvokeCopy(heap, [Top EXCEPT !.at = "test"],
                                Top.node.test, Top.state))
       \/ /\ Top.at = "test"
          /\ Becomes(LoopFrom(update_pc(heap, Top.state, get_used(heap, ret)),
                              Top, Top.node.body, 1))
       \/ /\ Top.at = "loop"
          /\ Becomes(LoopFrom(heap, Top, Top.node.body, Top.i + 1))

\* PassEvaluator.evaluate
PassEvaluator_evaluate ==
    /\ Running("Pass")
    /\ Becomes(Returns(heap, Top.state))

\* ModuleEvaluator.evaluate
ModuleEvaluator_evaluate ==
    /\ Running("Module")
    /\ \/ /\ Top.at = "start"
          /\ Becomes(LoopFrom(heap, Top, Top.node.body, 1))
       \/ /\ Top.at = "loop"
          /\ Becomes(LoopFrom(heap, Top, Top.node.body, Top.i + 1))

-----------------------------------------------------------------------------
(* flowpy/main.py *)

\* A source text is kept as its statements, the comment lines among them
\* included (kind "Comment", string = the comment with its leading "#").
Comment(string) == [kind |-> "Comment", string |-> string]

Token(type, string) == [type |-> type, string |-> string]

\* tokenize.tokenize: the token stream of the source.  Only what the scanner
\* tells apart is kept: comments, layout, "def" and the name after it; the
\* tokens of any other statement or expression are one NAME token each.
RECURSIVE tokenize_body(_)
tokenize_stmt(nd) ==
    LET block(body) == <<Token("NEWLINE", <<"\n">>), Token("INDENT", <<" ">>)>>
                       \o tokenize_body(body) \o <<Token("DEDENT", <<>>)>>
    IN  CASE nd.kind = "Comment" ->
                <<Token("COMMENT", nd.string), Token("NL", <<"\n">>)>>
          [] nd.kind = "FunctionDef" ->
                <<Token("NAME", <<"d", "e", "f">>), Token("NAME", nd.name),
                  Token("OP", <<"(">>), Token("OP", <<")">>),
                  Token("OP", <<":">>)>> \o block(nd.body)
          [] nd.kind = "If" ->
                <<Token("NAME", <<"i", "f">>), Token("OP", <<":">>)>>
                \o block(nd.body)
                \o (IF nd.orelse = <<>> THEN <<>>
                    ELSE <<Token("NAME", <<"e", "l", "s", "e">>),
                           Token("OP", <<":">>)>> \o block(nd.orelse))
          [] nd.kind \in {"While", "For"} ->
                <<Token("NAME", <<"w">>), Token("OP", <<":">>)>>
                \o block(nd.body)
          [] OTHER ->
                <<Token("NAME", <<"_">>), Token("NEWLINE", <<"\n">>)>>

tokenize_body(body) ==
    IF body = <<>> THEN <<>>
    ELSE tokenize_stmt(Head(body)) \o tokenize_body(Tail(body))

tokenize(source) ==
    <<Token("ENCODING", <<"u", "t", "f", "-", "8">>)>>
    \o tokenize_body(source) \o <<Token("ENDMARKER", <<>>)>>

\* ast.parse: the AST of the source, which has no comments
RECURSIVE parse_body(_)
parse_stmt(nd) ==
    CASE nd.kind \in {"FunctionDef", "While", "For"} ->
            [nd EXCEPT !.body = parse_body(@)]
      [] nd.kind = "If" ->
            [nd EXCEPT !.body = parse_body(@), !.orelse = parse_body(@)]
      [] OTHER -> nd

parse_body(body) ==
    IF body = <<>> THEN <<>>
    ELSE IF Head(body).kind = "Comment" THEN parse_body(Tail(body))
    ELSE <<parse_stmt(Head(body))>> \o parse_body(Tail(body))

ast_parse(source) == Module(parse_body(source))

\* str.startswith
startswith(s, prefix) ==
    Len(s) >= Len(prefix) /\ SubSeq(s, 1, Len(prefix)) = prefix

\* str.removeprefix
removeprefix(s, prefix) ==
    IF startswith(s, prefix) THEN SubSeq(s, Len(prefix) + 1, Len(s)) ELSE s

\* dict assignment d[key] = value
SetKey(d, key, value) ==
    [k \in DOMAIN d \cup {key} |-> IF k = key THEN value ELSE d[k]]

\* the tokens skipped, without the NL that ends a comment line
to_skip_newline == {"NEWLINE", "INDENT", "DEDENT"}

to_skip == {"NL", "NEWLINE", "INDENT", "DEDENT"}

\* FlowPy.Source.parse: the loop over the tokens; p holds the locals
\* (state, expecting_def, upcoming_function_name) and self.functions
RECURSIVE Source_parse_loop(_, _, _, _)
Source_parse_loop(h, tokens, p, global_state) ==
    IF tokens = <<>>
    THEN [h |-> h,
          functions |-> SetKey(p.functions, MAIN_SCRIPT, global_state)]
    ELSE
    LET token == Head(tokens)
        rest == Tail(tokens)
    IN  IF token.type \in to_skip
        THEN Source_parse_loop(h, rest, p, global_state)
        ELSE IF token.type = "COMMENT"
        THEN LET comment == lstrip(Tail(token.string))
             IN  IF startswith(comment, FLOWPY_PREFIX)
                 THEN Source_parse_loop(
                        add_rules(h, p.state,
                                  removeprefix(comment, FLOWPY_PREFIX)),
                        rest, [p EXCEPT !.expecting_def = TRUE],
                        global_state)
                 ELSE Source_parse_loop(h, rest, p, global_state)
        ELSE IF p.expecting_def
        THEN IF token.string = <<"d", "e", "f">>
             THEN Source_parse_loop(
                    h, rest, [p EXCEPT !.upcoming_function_name = TRUE],
                    global_state)
             ELSE IF p.upcoming_function_name
             THEN LET h1 == State(h)
                  IN  Source_parse_loop(
                        h1, rest,
                        [functions |-> SetKey(p.functions, token.string,
                                              p.state),
                         state |-> NewState(h1),
                         upcoming_function_name |-> FALSE,
                         expecting_def |-> FALSE],
                        global_state)
             ELSE LET h1 == State(combine(h, global_state, p.state))
                  IN  Source_parse_loop(
                        h1, rest,
                        [p EXCEPT !.expecting_def = FALSE,
                                  !.state = NewState(h1)],
                        global_state)
        ELSE Source_parse_loop(h, rest, p, global_state)

\* FlowPy.Source.__init__ (global_state = State()) and Source.parse
Source_parse(source) ==
    LET h1 == State(EmptyHeap)
        global_state == NewState(h1)
        h2 == State(h1)
    IN  Source_parse_loop(
            h2, tokenize(source),
            [functions |-> <<>>, state |-> NewState(h2),
             upcoming_function_name |-> FALSE, expecting_def |-> FALSE],
            global_state)

\* FlowPy.run: main_evaluator = Evaluator.from_AST(prog, State(), ...);
\* state = main_evaluator.evaluate()
run_evaluate ==
    /\ phase = "init"
    /\ LET h1 == State(heap)
           c == from_AST(h1, tree, NewState(h1))
       IN  /\ heap' = c.h
           /\ stack' = <<c.frame>>
    /\ phase' = "running"
    /\ UNCHANGED <<tree, functions, ret, result, handles, origin, last, ops>>

\* FlowPy.run: warnings = state.get_warnings(); every warning is appended
\* to result, which is returned
run_return ==
    /\ phase = "running"
    /\ stack = <<>>
    /\ result' = get_warnings(heap, ret)
    /\ phase' = "done"
    /\ UNCHANGED <<heap, tree, functions, stack, ret,
                   handles, origin, last, ops>>

-----------------------------------------------------------------------------
(* A driver of the State API (as tests/test_state.py drives it): it holds *)
(* up to MaxStates State objects and makes up to MaxOps calls on them.    *)

\* the annotation texts the driver declares
Comments ==
    { <<"a", ":", " ", "h", ".">>,                       \* "a: h."
      <<"a", "*", ":", " ", "m", ".">>,                  \* "a*: m."
      <<"*", ":", " ", "(", ")", ".">>,                  \* "*: ()."
      <<"a", ":", " ", "m", ",", "(", ")", ".", "b", ":", "h">>,  \* "a: m,().b:h"
      <<"a", ":", " ", "(", ")", ".">> }                   \* "a: ()."

\* the names the driver looks up
Names == { <<"a">>, <<"a", "b">>, <<"b">> }

\* the label sets the driver raises a PC by
LabelSets == { {<<"h">>}, {<<"m">>} }

\* the violations the driver records
Errs == {"e1", "e2"}

NoCall == [op |-> "init", self |-> 0, other |-> 0, comment |-> <<>>,
           labels |-> {}, err |-> ""]

EvaluatorIdle ==
    /\ tree = Module(<<>>)
    /\ functions = <<>>
    /\ stack = <<>>
    /\ ret = 0
    /\ phase = "idle"
    /\ result = <<>>

InitState ==
    /\ heap = State(EmptyHeap)
    /\ handles = <<1>>
    /\ origin = <<0>>
    /\ last = NoCall
    /\ ops = 0
    /\ EvaluatorIdle

Called(call) ==
    /\ ops < MaxOps
    /\ ops' = ops + 1
    /\ last' = call
    /\ UNCHANGED evalvars

\* s = State()
DoState ==
    /\ Len(handles) < MaxStates
    /\ heap' = State(heap)
    /\ handles' = Append(handles, NewState(heap'))
    /\ origin' = Append(origin, 0)
    /\ Called([NoCall EXCEPT !.op = "State"])

\* t = s.copy()
DoCopy ==
    \E i \in 1..Len(handles) :
        /\ Len(handles) < MaxStates
        /\ heap' = copy(heap, handles[i])
        /\ handles' = Append(handles, NewState(heap'))
        /\ origin' = Append(origin, i)
        /\ Called([NoCall EXCEPT !.op = "copy", !.self = i])

\* s.add_rules(comment)
DoAddRules ==
    \E i \in 1..Len(handles), c \in Comments :
        /\ heap' = add_rules(heap, handles[i], c)
        /\ UNCHANGED <<handles, origin>>
        /\ Called([NoCall EXCEPT !.op = "add_rules", !.self = i,
                                 !.comment = c])

\* s.combine(other)
DoCombine ==
    \E i \in 1..Len(handles), j \in 1..Len(handles) :
        /\ i # j
        /\ heap' = combine(heap, handles[i], handles[j])
        /\ UNCHANGED <<handles, origin>>
        /\ Called([NoCall EXCEPT !.op = "combine", !.self = i, !.other = j])

\* s.update_pc(labels)
DoUpdatePc ==
    \E i \in 1..Len(handles), ls \in LabelSets :
        /\ heap' = update_pc(heap, handles[i], ls)
        /\ UNCHANGED <<handles, origin>>
        /\ Called([NoCall EXCEPT !.op = "update_pc", !.self = i,
                                 !.labels = ls])

\* s.set_used(var)
DoSetUsed ==
    \E i \in 1..Len(handles), var \in {<<"a">>, <<"b">>} :
        /\ heap' = set_used(heap, handles[i], var)
        /\ UNCHANGED <<handles, origin>>
        /\ Called([NoCall EXCEPT !.op = "set_used", !.self = i])

\* s.error(err)
DoError ==
    \E i \in 1..Len(handles), e \in Errs :
        /\ heap' = error(heap, handles[i], e)
        /\ UNCHANGED <<handles, origin>>
        /\ Called([NoCall EXCEPT !.op = "error", !.self = i, !.err = e])

NextState ==
    \/ DoState
    \/ DoCopy
    \/ DoAddRules
    \/ DoCombine
    \/ DoUpdatePc
    \/ DoSetUsed
    \/ DoError

SpecState == InitState /\ [][NextState]_vars

-----------------------------------------------------------------------------
(* The sources analysed: the programs of tests/test_flowpy.py and a family *)
(* of assignments, alone or under an if, a while or a for.                *)

\* largest number of elements of a sequence literal in the family
MaxElts == 2

Load(id, lineno) == Name(id, "Load", lineno)
Store(id, lineno) == Name(id, "Store", lineno)

id_a == <<"a">>
id_b == <<"b">>
id_c == <<"c">>
id_d == <<"d">>
id_e == <<"e">>
id_f == <<"f">>
id_print == <<"p", "r", "i", "n", "t">>
id_alpha == <<"a", "l", "p", "h", "a">>
id_foo == <<"f", "o", "o">>
id_bar == <<"b", "a", "r">>

high == <<"h">>
med == <<"m">>
low == <<"l">>

\* "# fp " followed by the clauses
Fp(clauses) == Comment(<<"#", " ", "f", "p", " ">> \o clauses)

a_high == <<"a", ":", " ", "h", ".">>                   \* "a: h."
d_med == <<" ", "d", ":", " ", "m", ".">>               \* " d: m."
b_high == <<" ", "b", ":", " ", "h", ".">>              \* " b: h."
b_high_med == <<" ", "b", ":", " ", "h", ",", "m", ".">>  \* " b: h,m."
b_low == <<"b", ":", " ", "l", ".">>                    \* "b: l."

\* tests/test_flowpy.py: test_implicit_flow_function
implicit_flow_function ==
    << Fp(a_high),
       FunctionDef(id_alpha,
         << If(Compare(Load(id_a, 4), <<Constant(4)>>, 4),
               << Expr(Call(Load(id_print, 5), <<>>, 5), 5) >>,
               << Return(Constant(7), 7) >>, 4) >>, 3) >>

\* test_implicit_flow_assignment
implicit_flow_assignment ==
    << Fp(a_high),
       If(Compare(Load(id_a, 3), <<Constant(3)>>, 3),
          << Assign(<<Store(id_b, 4)>>, Constant(4), 4) >>,
          << Assign(<<Store(id_b, 6)>>, Constant(6), 6) >>, 3) >>

\* test_explicit_flow_assignment
explicit_flow_assignment ==
    << Fp(a_high),
       Assign(<<Store(id_a, 3)>>, Constant(3), 3),
       Assign(<<Store(id_b, 4)>>, Load(id_a, 4), 4) >>

\* test_explicit_flow_nested
explicit_flow_nested ==
    << Fp(a_high),
       Assign(<<Store(id_a, 3)>>, Constant(3), 3),
       Assign(<<Store(id_b, 4)>>, Constant(4), 4),
       If(Load(id_b, 5),
          << Assign(<<Store(id_b, 6)>>,
                    BinOp(Load(id_b, 6), Constant(6), 6), 6),
             If(BinOp(Load(id_b, 7), Constant(7), 7),
                << Assign(<<Store(id_b, 8)>>, Load(id_a, 8), 8) >>,
                <<>>, 7) >>,
          <<>>, 5) >>

\* test_implicit_flow_nested
implicit_flow_nested ==
    << Fp(a_high),
       Assign(<<Store(id_a, 3)>>, Constant(3), 3),
       Fp(b_low),
       FunctionDef(id_foo,
         << FunctionDef(id_bar,
              << If(Compare(Load(id_a, 7), <<Constant(7)>>, 7),
                    << Assign(<<Store(id_b, 8)>>, Constant(8), 8),
                       If(Load(id_b, 9),
                          << Assign(<<Store(id_a, 10)>>, Constant(10), 10) >>,
                          <<>>, 9) >>,
                    << Assign(<<Store(id_b, 12)>>, Constant(12), 12) >>,
                    7) >>, 6) >>, 5) >>

\* test_explicit_tuple_assignment
explicit_tuple_assignment ==
    << Fp(a_high \o d_med),
       Assign(<<Store(id_a, 3)>>, Constant(3), 3),
       Assign(<<Tuple(<<Store(id_b, 4), Store(id_c, 4)>>, "Store", 4)>>,
              Tuple(<<Load(id_a, 4), Constant(4)>>, "Load", 4), 4),
       Assign(<<Store(id_e, 5)>>,
              Tuple(<<Load(id_a, 5), Load(id_b, 5), Load(id_d, 5)>>,
                    "Load", 5), 5) >>

Tests ==
    { implicit_flow_function, implicit_flow_assignment,
      explicit_flow_assignment, explicit_flow_nested, implicit_flow_nested,
      explicit_tuple_assignment }

\* a: h.   b = a;  c = b
b_then_c ==
    << Fp(a_high),
       Assign(<<Store(id_b, 2)>>, Load(id_a, 2), 2),
       Assign(<<Store(id_c, 3)>>, Load(id_b, 3), 3) >>

\* further programs: calls, sequences of unequal length, sibling blocks
Others ==
    { b_then_c,
      \* if a: x.f()            (the callee is not a name)
      << Fp(a_high),
         If(Load(id_a, 2),
            << Expr(Call(Attribute(Load(id_b, 3), id_f, 3), <<>>, 3), 3) >>,
            <<>>, 2) >>,
      \* x.f(a)                 (no PC)
      << Fp(a_high),
         Expr(Call(Attribute(Load(id_b, 2), id_f, 2), <<Load(id_a, 2)>>, 2),
              2) >>,
      \* (b, c) = (a, 2, 3)
      << Fp(a_high),
         Assign(<<Tuple(<<Store(id_b, 2), Store(id_c, 2)>>, "Store", 2)>>,
                Tuple(<<Load(id_a, 2), Constant(2), Constant(2)>>, "Load", 2),
                2) >>,
      \* f: h.  if a: f(d)  /  e = f(a)  /  while f(a): b = 1
      << Fp(a_high \o d_med \o <<" ", "f", ":", " ", "h", ".">>),
         If(Load(id_a, 2),
            << Expr(Call(Load(id_f, 3), <<Load(id_d, 3)>>, 3), 3) >>,
            <<>>, 2),
         Assign(<<Store(id_e, 4)>>,
                Call(Load(id_f, 4), <<Load(id_a, 4)>>, 4), 4),
         While(Call(Load(id_f, 5), <<Load(id_a, 5)>>, 5),
               << Assign(<<Store(id_b, 6)>>, Constant(6), 6) >>, 5) >>,
      \* if a: (if d: b = 1 else: e = 1); c = 1   followed by   c = d
      << Fp(a_high \o d_med),
         If(Load(id_a, 2),
            << If(Load(id_d, 3),
                  << Assign(<<Store(id_b, 4)>>, Constant(4), 4) >>,
                  << Assign(<<Store(id_e, 6)>>, Constant(6), 6) >>, 3),
               Assign(<<Store(id_c, 7)>>, Constant(7), 7) >>,
            <<>>, 2),
         Assign(<<Store(id_c, 8)>>, Load(id_d, 8), 8) >>,
      \* a: h. b: ().    b = a; c = a    (b is cleared, c is untracked)
      << Fp(a_high \o <<" ", "b", ":", " ", "(", ")", ".">>),
         Assign(<<Store(id_b, 2)>>, Load(id_a, 2), 2),
         Assign(<<Store(id_c, 3)>>, Load(id_a, 3), 3) >>,
      \* two annotations, b = a, an annotation and a plain comment before
      \* def f, an annotation in the body of f, an annotation at the end
      << Fp(a_high), Fp(d_med),
         Assign(<<Store(id_b, 3)>>, Load(id_a, 3), 3),
         Fp(b_high), Comment(<<"#", " ", "f">>),
         FunctionDef(id_f,
           << Fp(b_low),
              Assign(<<Store(id_b, 8)>>, Load(id_d, 8), 8) >>, 6),
         Fp(<<"e", ":", " ", "h", ".">>) >>,
      \* a: h.  b = a;  b: h. def foo: (b = a; while d: def f: b = a);
      \* b: m. def bar: b = a;  b = a
      << Fp(a_high),
         Assign(<<Store(id_b, 2)>>, Load(id_a, 2), 2),
         Fp(b_high),
         FunctionDef(id_foo,
           << Assign(<<Store(id_b, 5)>>, Load(id_a, 5), 5),
              While(Load(id_d, 6),
                    << FunctionDef(id_f,
                         << Assign(<<Store(id_b, 8)>>, Load(id_a, 8), 8) >>,
                         7) >>, 6) >>, 4),
         Fp(<<"b", ":", " ", "m", ".">>),
         FunctionDef(id_bar,
           << Assign(<<Store(id_b, 11)>>, Load(id_a, 11), 11) >>, 10),
         Assign(<<Store(id_b, 12)>>, Load(id_a, 12), 12) >>,
      \* e = f(a + 2, d);  if f(a == d, (d,)): b = 4
      << Fp(a_high \o d_med),
         Assign(<<Store(id_e, 2)>>,
                Call(Load(id_f, 2),
                     <<BinOp(Load(id_a, 2), Constant(2), 2), Load(id_d, 2)>>,
                     2), 2),
         If(Call(Load(id_f, 3),
                 <<Compare(Load(id_a, 3), <<Load(id_d, 3)>>, 3),
                   Tuple(<<Load(id_d, 3)>>, "Load", 3)>>, 3),
            << Assign(<<Store(id_b, 4)>>, Constant(4), 4) >>,
            <<>>, 3) >>,
      \* e = f(d) if a else b
      << Fp(a_high \o d_med),
         Assign(<<Store(id_e, 2)>>,
                IfExp(Load(id_a, 2),
                      Call(Load(id_f, 2), <<Load(id_d, 2)>>, 2),
                      Load(id_b, 2), 2), 2) >>,
      \* for b in d: (while a: c = b); pass
      << Fp(a_high \o d_med),
         For(Store(id_b, 2), Load(id_d, 2),
             << While(Load(id_a, 3),
                      << Assign(<<Store(id_c, 4)>>, Load(id_b, 4), 4) >>, 3),
                Pass(5) >>, 2) >> }

\* the family: an annotation, then an assignment alone or in a block
RuleTexts == { a_high \o d_med, a_high \o d_med \o b_high,
               a_high \o d_med \o b_high_med }

Atoms(ln) == { Load(id_a, ln), Load(id_d, ln), Constant(ln) }

RECURSIVE SeqsOf(_, _)
SeqsOf(S, n) ==
    IF n = 0 THEN {<<>>}
    ELSE {<<x>> \o t : x \in S, t \in SeqsOf(S, n - 1)}

Values(ln) ==
    Atoms(ln)
    \cup { Tuple(es, "Load", ln) :
             es \in UNION {SeqsOf(Atoms(ln), n) : n \in 1..MaxElts} }
    \cup { Compare(Load(id_a, ln), <<Load(id_d, ln)>>, ln),
           Call(Load(id_f, ln), <<Load(id_a, ln), Load(id_d, ln)>>, ln),
           BinOp(Load(id_a, ln), Load(id_d, ln), ln),
           IfExp(Load(id_a, ln), Load(id_d, ln), Constant(ln), ln),
           List(<<Load(id_a, ln), Load(id_d, ln)>>, "Load", ln),
           Tuple(<<Tuple(<<Load(id_a, ln)>>, "Load", ln), Load(id_d, ln)>>,
                 "Load", ln) }

TargetLists(ln) ==
    { <<Store(id_b, ln)>>,
      <<Store(id_e, ln)>>,
      <<Store(id_b, ln), Store(id_e, ln)>>,
      <<Tuple(<<Store(id_b, ln), Store(id_c, ln)>>, "Store", ln)>>,
      <<Tuple(<<Store(id_c, ln), Store(id_b, ln)>>, "Store", ln),
        Store(id_e, ln)>> }

Assigns(ln) ==
    { Assign(ts, v, ln) : ts \in TargetLists(ln), v \in Values(ln) }

Blocks ==
    Assigns(2)
    \cup { If(t, <<st>>, <<>>, 2) :
             t \in { Load(id_a, 2), Load(id_d, 2), Constant(2),
                     Compare(Load(id_a, 2), <<Load(id_d, 2)>>, 2) },
             st \in Assigns(3) }
    \cup { While(Load(id_a, 2), <<st>>, 2) : st \in Assigns(3) }
    \cup { For(Store(id_c, 2), Load(id_d, 2), <<st>>, 2) : st \in Assigns(3) }

Family == { <<Fp(r), b>> : r \in RuleTexts, b \in Blocks }

Sources == Tests \cup Others \cup Family

-----------------------------------------------------------------------------
(* FlowPy(source): the source is scanned for its annotations; run() then  *)
(* evaluates its AST.                                                     *)

DriverIdle ==
    /\ handles = <<>>
    /\ origin = <<>>
    /\ last = NoCall
    /\ ops = 0

Init ==
    /\ \E source \in Sources :
          LET p == Source_parse(source)
          IN  /\ heap = p.h
              /\ functions = p.functions
              /\ tree = ast_parse(source)
    /\ stack = <<>>
    /\ ret = 0
    /\ phase = "init"
    /\ result = <<>>
    /\ DriverIdle

Next ==
    \/ run_evaluate
    \/ ModuleEvaluator_evaluate
    \/ FunctionDefEvaluator_evaluate
    \/ IfEvaluator_evaluate
    \/ WhileEvaluator_evaluate
    \/ ForEvaluator_evaluate
    \/ AssignEvaluator_evaluate
    \/ ExprEvaluator_evaluate
    \/ PassEvaluator_evaluate
    \/ CallEvaluator_evaluate
    \/ IfExpEvaluator_evaluate
    \/ CompareEvaluator_evaluate
    \/ NameEvaluator_evaluate
    \/ TupleEvaluator_evaluate
    \/ ConstantEvaluator_evaluate
    \/ UnimplementedEvaluator_evaluate
    \/ run_return

Spec == Init /\ [][Next]_vars

-----------------------------------------------------------------------------
(* Properties *)

\* the names looked up when two states are compared
AllNames ==
    { id_a, id_b, id_c, id_d, id_e, id_f, id_print, high, med, low,
      <<"a", "b">> }

\* what a state shows: its PC, its used names, the labels of every name
View(h, s) ==
    [pc |-> get_pc(h, s), used |-> h.State[s].used,
     labels |-> [n \in AllNames |-> get_labels(h, s, n)]]

\* the violations the step appended to the warnings list of state s
Recorded(s) ==
    SubSeq(get_warnings(heap', s), Len(get_warnings(heap, s)) + 1,
           Len(get_warnings(heap', s)))

Brief(errs) == [i \in 1..Len(errs) |-> <<errs[i].type, errs[i].info>>]

\* C1: evaluating a Name in store context records an Explicit Flow
\* Violation iff the used-labels of the state are not a subset of the labels
\* of the name and an Implicit Flow Violation iff the PC is not a subset of
\* them, independently and the explicit one first; in load context it
\* records nothing and only adds the name to the used names of the state.
C1_NameCheck ==
    [][Running("Name") =>
        LET node == Top.node
            s == Top.state
            labels == get_labels(heap, s, node.id)
            used == get_used(heap, s)
            explicit == IF used \subseteq labels THEN <<>>
                        ELSE << <<"ExplicitFlowError", used \ labels>> >>
            implicit == IF get_pc(heap, s) \subseteq labels THEN <<>>
                        ELSE << <<"ImplicitFlowError",
                                  get_pc(heap, s) \ labels>> >>
        IN  /\ node.ctx = "Store" =>
                /\ Brief(Recorded(s)) = explicit \o implicit
                /\ \A i \in 1..Len(Recorded(s)) :
                      /\ Recorded(s)[i].node = node
                      /\ Recorded(s)[i].var_to = FlowVar(node.id, labels)
                /\ heap'.State = heap.State
                /\ heap'.Rule = heap.Rule
            /\ node.ctx = "Load" =>
                heap' = [heap EXCEPT !.State[s].used = @ \cup {node.id}]
    ]_vars

\* C1 witness: one write has recorded both violations, the explicit first
C1_Witness ==
    \E l \in 1..Len(heap.list) :
        \E i \in 1..(Len(heap.list[l]) - 1) :
            /\ heap.list[l][i].type = "ExplicitFlowError"
            /\ heap.list[l][i + 1].type = "ImplicitFlowError"
            /\ heap.list[l][i].state = heap.list[l][i + 1].state
            /\ heap.list[l][i].node = heap.list[l][i + 1].node
            /\ heap.list[l][i].node.kind = "Name"

BlockKinds == {"If", "While", "For"}

\* the test of an If or a While, the iterated expression of a For
TestOf(node) == IF node.kind = "For" THEN node.iter ELSE node.test

\* the statements under an If (else branch included), a While or a For
StatementsOf(node) ==
    IF node.kind = "If" THEN node.body \o node.orelse ELSE node.body

\* the step starts an evaluation of node on a fresh copy of state s
StartsOnCopy(node, s) ==
    /\ Len(stack') = Len(stack) + 1
    /\ stack'[Len(stack')].node = node
    /\ stack'[Len(stack')].at = "start"
    /\ stack'[Len(stack')].state = Len(heap.State) + 1
    /\ Len(heap'.State) = Len(heap.State) + 1
    /\ View(heap', stack'[Len(stack')].state) = View(heap', s)

\* C2: for an If, While or For evaluated in state s, the test (iterated
\* expression) is evaluated on a copy of s, PC(s) becomes PC(s) united with
\* the used-labels of the test, every statement under it is evaluated on a
\* fresh copy whose PC is that elevated PC, and along the nesting of the
\* running evaluators the PC only grows.
C2_BlockPc ==
    /\ [][(phase = "running" /\ stack # <<>>
           /\ Top.node.kind \in BlockKinds) =>
            LET node == Top.node
                s == Top.state
                n == IF Top.at = "loop" THEN Top.i + 1 ELSE 1
            IN  /\ Top.at = "start" =>
                    /\ StartsOnCopy(TestOf(node), s)
                    /\ get_pc(heap', s) = get_pc(heap, s)
                /\ Top.at \in {"test", "iter"} =>
                    get_pc(heap', s) = get_pc(heap, s) \cup get_used(heap, ret)
                /\ Top.at = "loop" => get_pc(heap', s) = get_pc(heap, s)
                /\ Top.at # "start" =>
                    IF n <= Len(StatementsOf(node))
                    THEN StartsOnCopy(StatementsOf(node)[n], s)
                    ELSE stack' = Callers /\ ret' = s
          ]_vars
    /\ [][\A k \in 1..(Len(stack) - 1) :
            get_pc(heap', stack[k].state) = get_pc(heap, stack[k].state)
          ]_vars
    /\ [](\A k \in 1..Len(stack) : \A l \in k..Len(stack) :
            get_pc(heap, stack[k].state) \subseteq get_pc(heap, stack[l].state))

\* C2 witness: a statement runs under two nested blocks, each of which
\* raised the PC
C2_Witness ==
    \E k \in 1..Len(stack) : \E l \in (k + 1)..Len(stack) :
        /\ stack[k].node.kind \in BlockKinds
        /\ stack[l].node.kind \in BlockKinds
        /\ stack[k].at = "loop"
        /\ stack[l].at = "loop"
        /\ get_pc(heap, stack[k].state) # {}
        /\ get_pc(heap, stack[k].state) # get_pc(heap, stack[l].state)
        /\ l < Len(stack)

\* the rules of state s that match the name
Matching(h, s, name) ==
    { h.Rule[h.State[s].rules[i].rule] :
        i \in { k \in 1..Len(h.State[s].rules) :
                  applies_to(h.Rule[h.State[s].rules[k].rule], name) } }

\* C3: in every rule table built by add_rules and combine calls, the labels
\* of a name are empty if a rule matching the name has an empty label set,
\* wherever it stands among the matching rules, and otherwise the union of
\* the label sets of the matching rules.
C3_GetLabels ==
    \A s \in 1..Len(heap.State) : \A name \in Names :
        get_labels(heap, s, name) =
            IF \E rule \in Matching(heap, s, name) : rule.labels = {}
            THEN {}
            ELSE UNION { rule.labels : rule \in Matching(heap, s, name) }

\* C3 witness: a clearing rule matches a name both before and after rules
\* with labels that match it too
C3_Witness ==
    \E s \in 1..Len(heap.State) : \E name \in Names :
        LET rules == heap.State[s].rules
            hit(i) == applies_to(heap.Rule[rules[i].rule], name)
            clearing(i) == heap.Rule[rules[i].rule].labels = {}
        IN  \E i, j, k \in 1..Len(rules) :
                /\ i < j /\ j < k
                /\ hit(i) /\ hit(j) /\ hit(k)
                /\ ~clearing(i) /\ clearing(j) /\ ~clearing(k)

\* the violations in the list of state s made for this node in this state
RecordedFor(h, node, s) ==
    { i \in 1..Len(get_warnings(h, s)) :
        /\ get_warnings(h, s)[i].node = node
        /\ get_warnings(h, s)[i].state = s }

\* C4: evaluating a Call whose callee is a name records exactly one
\* Implicit Flow Violation for the call when the PC of its state is not
\* empty and none when it is empty, whatever the labels of the callee; the
\* function of test_implicit_flow_function yields exactly one violation, an
\* implicit one at the line of print() whose state has PC {L}.
C4_CallCheck ==
    /\ [][(Running("Call") /\ Top.node.func.kind = "Name") =>
            LET node == Top.node
                s == Top.state
            IN  /\ get_pc(heap', s) = get_pc(heap, s)
                /\ Top.at = "func" =>
                    /\ Len(Recorded(s)) = IF get_pc(heap, s) = {} THEN 0 ELSE 1
                    /\ \A i \in 1..Len(Recorded(s)) :
                          /\ Recorded(s)[i].type = "ImplicitFlowError"
                          /\ Recorded(s)[i].node = node
                          /\ Recorded(s)[i].state = s
                /\ Top.at # "func" => Recorded(s) = <<>>
                /\ stack' = Callers =>
                    Cardinality(RecordedFor(heap', node, s))
                        = IF get_pc(heap, s) = {} THEN 0 ELSE 1
          ]_vars
    /\ []((phase = "done" /\ tree = ast_parse(implicit_flow_function)) =>
            /\ Len(result) = 1
            /\ result[1].type = "ImplicitFlowError"
            /\ result[1].node = Call(Load(id_print, 5), <<>>, 5)
            /\ result[1].line = 5
            /\ get_pc(heap, result[1].state) = {high})

\* C4 witness: the run of test_implicit_flow_function has returned its
\* violation, recorded for a callee without labels
C4_Witness ==
    /\ phase = "done"
    /\ tree = ast_parse(implicit_flow_function)
    /\ Len(result) = 1
    /\ result[1].var_to = FlowVar(id_print, {})

\* the nodes directly under an expression node
Children(node) ==
    CASE node.kind \in {"Tuple", "List"} -> node.elts
      [] node.kind = "Compare" -> <<node.left>> \o node.comparators
      [] node.kind = "Call" -> <<node.func>> \o node.args
      [] node.kind = "IfExp" -> <<node.test, node.body, node.orelse>>
      [] node.kind = "BinOp" -> <<node.left, node.right>>
      [] node.kind = "Attribute" -> <<node.value>>
      [] OTHER -> <<>>

\* the names that occur in load context in an expression
RECURSIVE LoadNames(_)
LoadNames(node) ==
    IF node.kind = "Name"
    THEN IF node.ctx = "Load" THEN {node.id} ELSE {}
    ELSE UNION { LoadNames(Children(node)[i]) :
                    i \in 1..Len(Children(node)) }

\* an expression made of names, constants, comparisons and tuples only
RECURSIVE Plain(_)
Plain(node) ==
    /\ node.kind \in {"Name", "Constant", "Compare", "Tuple"}
    /\ \A i \in 1..Len(Children(node)) : Plain(Children(node)[i])

\* a right-hand side made of such expressions (a list literal is taken
\* apart like a tuple)
PlainValue(value) ==
    IF hasattr_elts(value)
    THEN \A i \in 1..Len(value.elts) : Plain(value.elts[i])
    ELSE Plain(value)

\* a name is about to be checked as target i of the assignment below it
AtTarget ==
    /\ phase = "running"
    /\ Len(stack) >= 2
    /\ stack[Len(stack) - 1].node.kind = "Assign"
    /\ stack[Len(stack) - 1].at = "targets"
    /\ Top.at = "start"

Assignment == stack[Len(stack) - 1]

AtScalarTarget ==
    /\ AtTarget
    /\ ~hasattr_elts(Assignment.node.targets[Assignment.i])

AtElementTarget ==
    /\ AtTarget
    /\ hasattr_elts(Assignment.node.targets[Assignment.i])

LabelsOf(h, s, names) == UNION { get_labels(h, s, n) : n \in names }

ResultIs(source, brief) ==
    (phase = "done" /\ tree = ast_parse(source)) =>
        [i \in 1..Len(result) |->
            <<result[i].type, result[i].var_to>>] = brief

\* C5 as stated: every scalar target of an assignment is checked against
\* the union of the labels of all names read anywhere in the right-hand
\* side.
C5_AllNamesRead ==
    AtScalarTarget =>
        get_used(heap, Top.state)
            = LabelsOf(heap, Top.state, LoadNames(Assignment.node.value))

\* C5 as amended: the right-hand side is evaluated once (one state for it,
\* or one per element of a sequence literal) and every scalar target, each
\* target of a chained assignment included, is checked against the union of
\* the labels of the names those evaluations registered as used; for a
\* right-hand side made of names, constants, comparisons and tuples these
\* are all the names read in it.  `a = 1; b = a` yields one explicit
\* violation for b (labels {}, a used with {high}); `e = (a, b, d)` yields
\* one for e with a -> {high} and d -> {med} used.
C5_UsedNamesOfValue ==
    /\ AtScalarTarget =>
        LET value == Assignment.node.value
            states == Assignment.states
        IN  /\ Len(states) = IF hasattr_elts(value) THEN Len(value.elts) ELSE 1
            /\ heap.State[Top.state].used =
                 UNION { heap.State[states[k]].used : k \in 1..Len(states) }
            /\ get_pc(heap, Top.state) = get_pc(heap, Assignment.state)
            /\ PlainValue(value) =>
                 /\ heap.State[Top.state].used = LoadNames(value)
                 /\ get_used(heap, Top.state)
                      = LabelsOf(heap, Top.state, LoadNames(value))
    /\ ResultIs(explicit_flow_assignment,
                << <<"ExplicitFlowError", FlowVar(id_b, {})>> >>)
    /\ (phase = "done" /\ tree = ast_parse(explicit_flow_assignment)) =>
            get_used_vars(heap, result[1].state)[id_a] = {high}
    /\ (phase = "done" /\ tree = ast_parse(explicit_tuple_assignment)) =>
            /\ Len(result) = 2
            /\ result[2].type = "ExplicitFlowError"
            /\ result[2].var_to = FlowVar(id_e, {})
            /\ get_used_vars(heap, result[2].state)[id_a] = {high}
            /\ get_used_vars(heap, result[2].state)[id_d] = {med}
            /\ \A i \in 1..2 : result[i].var_to.name = id_e => i = 2

\* C5 witness: the second target of a chained assignment of a tuple is
\* about to be checked against the names of both elements
C5_Witness ==
    /\ AtScalarTarget
    /\ Assignment.i = 2
    /\ Len(Assignment.states) = 2
    /\ heap.State[Top.state].used = {id_a, id_d}
    /\ heap.State[Assignment.states[1]].used # heap.State[Top.state].used

\* C6: when a sequence literal of n elements is assigned to a sequence
\* target of n elements, target element i is checked against what the
\* evaluation of element i of the right-hand side registered (and its PC),
\* never against a name read only in another element; the program of
\* test_explicit_tuple_assignment yields exactly two violations, both
\* explicit, for b and then for e, and none for c.
C6_Pointwise ==
    /\ AtElementTarget =>
        LET value == Assignment.node.value
            tgt == Assignment.node.targets[Assignment.i]
            j == Assignment.j
        IN  (hasattr_elts(value) /\ Len(value.elts) = Len(tgt.elts)) =>
              /\ Top.node = tgt.elts[j]
              /\ heap.State[Top.state].used
                    = heap.State[Assignment.states[j]].used
              /\ get_pc(heap, Top.state)
                    = get_pc(heap, Assignment.states[j])
              /\ \A k \in 1..Len(value.elts) :
                    k # j =>
                      (LoadNames(value.elts[k]) \ LoadNames(value.elts[j]))
                        \cap heap.State[Top.state].used = {}
              /\ Plain(value.elts[j]) =>
                    heap.State[Top.state].used = LoadNames(value.elts[j])
    /\ ResultIs(explicit_tuple_assignment,
                << <<"ExplicitFlowError", FlowVar(id_b, {})>>,
                   <<"ExplicitFlowError", FlowVar(id_e, {})>> >>)

\* C6 witness: the second element of a target is about to be checked, the
\* first element of the right-hand side having read a labelled name that
\* the second did not
C6_Witness ==
    /\ AtElementTarget
    /\ Assignment.j = 2
    /\ hasattr_elts(Assignment.node.value)
    /\ Len(Assignment.node.value.elts) = 2
    /\ heap.State[Assignment.states[1]].used = {id_a}
    /\ heap.State[Top.state].used = {}

StatementBlocks == {"Module", "FunctionDef", "If", "While", "For"}

\* the step starts an evaluation of node on a new state with the PC, the
\* used names and the labels of state s (a function definition adds the
\* rules written for the function to its new state)
StartsOnFreshCopy(node, s) ==
    LET new == stack'[Len(stack')].state
    IN  /\ Len(stack') = Len(stack) + 1
        /\ stack'[Len(stack')].node = node
        /\ stack'[Len(stack')].at = "start"
        /\ new = Len(heap.State) + 1
        /\ Len(heap'.State) = new
        /\ \A k \in 1..Len(stack) : stack'[k].state # new
        /\ View(heap', new).pc = View(heap', s).pc
        /\ View(heap', new).used = View(heap', s).used
        /\ node.kind # "FunctionDef" => View(heap', new) = View(heap', s)

\* C7: the statements of a block are each evaluated on a fresh copy of the
\* entry state of the block: no step changes the PC, the used names or the
\* labels seen through the state of an evaluator that is waiting for a node
\* under it, a block does not change its own state between two of its
\* statements, and every statement starts on a new copy of that state.
C7_Siblings ==
    [][(phase = "running" /\ stack # <<>>) =>
        /\ \A k \in 1..(Len(stack) - 1) :
              View(heap', stack[k].state) = View(heap, stack[k].state)
        /\ (/\ Top.node.kind \in StatementBlocks
            /\ Len(stack') > Len(stack)
            /\ ~(Top.node.kind \in BlockKinds /\ Top.at = "start")) =>
              LET n == IF Top.at = "loop" THEN Top.i + 1 ELSE 1
              IN  /\ Top.at \notin {"test", "iter"} =>
                        View(heap', Top.state) = View(heap, Top.state)
                  /\ stack'[Len(stack)].i = n
                  /\ StartsOnFreshCopy(StatementsOf(Top.node)[n], Top.state)
    ]_vars

\* C7 witness: a later statement of a block runs with the PC of the block
\* after an earlier statement of it ran under a raised PC
C7_Witness ==
    \E k \in 1..(Len(stack) - 1) :
        /\ stack[k].node.kind \in StatementBlocks
        /\ stack[k].at = "loop"
        /\ stack[k].i >= 2
        /\ stack[k + 1].at = "start"
        /\ get_pc(heap, stack[k + 1].state) = get_pc(heap, stack[k].state)
        /\ \E s \in (stack[k].state + 1)..Len(heap.State) :
              /\ ~(get_pc(heap, s) \subseteq get_pc(heap, stack[k].state))
              /\ heap.State[s].used # {}

\* the State() a handle descends from by copy() calls
RECURSIVE Root(_)
Root(i) == IF origin[i] = 0 THEN i ELSE Root(origin[i])

\* C8: all states obtained from a state by any chain of copy() calls share
\* one warnings list with it: after error(v) on one of them, v is the last
\* element of get_warnings() of every state of the lineage.
C8_SharedSink ==
    \A i, j \in 1..Len(handles) :
        Root(i) = Root(j) =>
            /\ get_warnings(heap, handles[i]) = get_warnings(heap, handles[j])
            /\ (last.op = "error" /\ last.self = i) =>
                  /\ get_warnings(heap, handles[j]) # <<>>
                  /\ get_warnings(heap, handles[j])
                        [Len(get_warnings(heap, handles[j]))] = last.err

\* C8 witness: error() was called on a copy of a copy
C8_Witness ==
    /\ last.op = "error"
    /\ origin[last.self] # 0
    /\ origin[origin[last.self]] # 0
    /\ Len(get_warnings(heap, handles[Root(last.self)])) >= 2

Mutators == {"add_rules", "combine", "update_pc"}

SameLabelsAndPc(s) ==
    /\ get_pc(heap', s) = get_pc(heap, s)
    /\ \A n \in Names : get_labels(heap', s, n) = get_labels(heap, s, n)

\* C9: after t = s.copy(), an add_rules, combine or update_pc call on s
\* leaves the labels of every name and the PC of t unchanged, and such a
\* call on t leaves those of s unchanged.
C9_CopyIndependent ==
    [][\A t \in 1..Len(handles) :
          (origin[t] # 0 /\ last'.op \in Mutators /\ ops' = ops + 1) =>
              /\ last'.self = origin[t] => SameLabelsAndPc(handles[t])
              /\ last'.self = t => SameLabelsAndPc(handles[origin[t]])
    ]_vars

IsPrefix(xs, ys) == Len(xs) <= Len(ys) /\ SubSeq(ys, 1, Len(xs)) = xs

\* C10: flow violations are collected, not raised: every warnings list only
\* grows at its end and only in the step of a name or of a call that calls
\* error(), the step that records a violation leaves the evaluation
\* running, and the list returned holds every violation, in the
\* order recorded (statements in source order, the then-branch before the
\* else-branch).
C10_Collected ==
    /\ [][/\ Len(heap'.list) >= Len(heap.list)
          /\ \A l \in 1..Len(heap.list) :
                /\ IsPrefix(heap.list[l], heap'.list[l])
                /\ heap'.list[l] # heap.list[l] =>
                      /\ Running("Name") \/ Running("Call")
                      /\ phase' = "running"
                      /\ stack' # <<>>
         ]_vars
    /\ [](phase = "done" =>
            /\ result = heap.list[heap.State[ret].warnings]
            /\ \A s \in ret..Len(heap.State) :
                  heap.State[s].warnings = heap.State[ret].warnings
            /\ \A i, j \in 1..Len(result) :
                  i < j => result[i].line <= result[j].line)
    /\ []((phase = "done" /\ tree = ast_parse(implicit_flow_assignment)) =>
            /\ Len(result) = 2
            /\ result[1].type = "ImplicitFlowError"
            /\ result[1].line = 4
            /\ result[2].type = "ImplicitFlowError"
            /\ result[2].line = 6)

\* C10 witness: a run has returned violations of a then-branch and of an
\* else-branch
C10_Witness ==
    /\ phase = "done"
    /\ tree = ast_parse(implicit_flow_assignment)
    /\ Len(result) = 2
    /\ result[1].line < result[2].line

\* C11: nothing in the core is fatal: no exception escapes the evaluation
\* of a Module, whatever the AST and the rules, assignments of a sequence
\* literal to a sequence target of another length and calls whose callee is
\* not a plain name included.
C11_NoException ==
    phase \in {"init", "running", "done", "idle"}

-----------------------------------------------------------------------------
(* The annotation language (as tests/test_state.py exercises it): texts   *)
(* are declared on one State with add_rules and names are looked up with  *)
(* get_labels.                                                            *)

\* the number of add_rules calls
MaxDeclared == 2

unit == <<"(", ")">>

\* a clause "p: l1, l2." given by its pattern and its label tokens
Decl(pattern, labels) == [pattern |-> pattern, labels |-> labels]

RECURSIVE JoinWith(_, _)
JoinWith(xs, sep) ==
    IF xs = <<>> THEN <<>>
    ELSE IF Len(xs) = 1 THEN xs[1]
    ELSE xs[1] \o sep \o JoinWith(Tail(xs), sep)

Render(d) ==
    d.pattern \o <<":", " ">> \o JoinWith(d.labels, <<",", " ">>)

Declarations ==
    { Decl(<<"a">>, <<high>>), Decl(<<"a">>, <<med>>),
      Decl(<<"a">>, <<high, med>>), Decl(<<"b">>, <<high>>),
      Decl(<<"a">>, <<unit>>), Decl(<<"a">>, <<unit, high>>),
      Decl(<<"a">>, <<unit, unit>>), Decl(<<"b">>, <<unit>>),
      Decl(<<"a", "*">>, <<med>>), Decl(<<"*">>, <<unit>>),
      Decl(<<"a", "*", "b", "l", "e">>, <<low>>), Decl(<<"*">>, <<low>>) }

\* a clause that declares nothing, given by its text
Bad(text) == [text |-> text]

\* no colon, two colons, no pattern, no label
Malformed ==
    { Bad(<<"a", " ", "h">>), Bad(<<"a", ":", " ", "h", ":", " ", "m">>),
      Bad(<<":", " ", "h">>), Bad(<<"a", ":", " ">>),
      Bad(<<"a", "*", ":", " ", ",", " ">>) }

WellFormed(x) == "pattern" \in DOMAIN x

\* a text is a sequence of clauses, each a declaration or a malformed one
Piece(x) == IF WellFormed(x) THEN Render(x) ELSE x.text

RECURSIVE Concat(_)
Concat(pieces) ==
    IF pieces = <<>> THEN <<>>
    ELSE IF Len(pieces) = 1 THEN Piece(pieces[1]) \o <<".">>
    ELSE Piece(pieces[1]) \o <<".", " ">> \o Concat(Tail(pieces))

PieceSeqs ==
    { <<x>> : x \in Declarations \cup Malformed }
    \cup { <<x, Decl(<<"b">>, <<high>>)>> : x \in Malformed }
    \cup { <<Decl(<<"a">>, <<unit>>), x>> : x \in Malformed }
    \cup { <<Decl(<<"a">>, <<unit, low>>), Decl(<<"b">>, <<unit>>)>>,
           <<Decl(<<"a", "*", "b", "l", "e">>, <<high, med>>),
             Decl(<<"b">>, <<low>>)>>,
           <<Decl(<<"a">>, <<high>>), Decl(<<"a">>, <<high>>)>> }

Texts == { Concat(ps) : ps \in PieceSeqs }

\* the names looked up
Queries ==
    { <<"a">>, <<"b">>, <<"a", "b">>, <<"a", "b", "l", "e">>,
      <<"a", "c", "c", "e", "p", "t", "a", "b", "l", "e">>,
      <<"a", "n", "o", "t", "h", "e", "r", "_", "v", "a", "r">>,
      <<"a", "n", "o", "t", "h", "e", "r", "_", "v", "a", "r", "i", "a", "b", "l", "e">>,
      <<"/", "w", ":", "E">> }

NoLookup == [op |-> "init", comment |-> <<>>, variable |-> <<>>, labels |-> {}]

InitRules ==
    /\ heap = State(EmptyHeap)
    /\ handles = <<1>>
    /\ origin = <<0>>
    /\ last = NoLookup
    /\ ops = 0
    /\ EvaluatorIdle

\* state.add_rules(text)
Declare ==
    \E text \in Texts :
        /\ ops < MaxDeclared
        /\ ops' = ops + 1
        /\ heap' = add_rules(heap, handles[1], text)
        /\ last' = [NoLookup EXCEPT !.op = "add_rules", !.comment = text]
        /\ UNCHANGED <<handles, origin>>
        /\ UNCHANGED evalvars

\* state.get_labels(variable)
Lookup ==
    \E variable \in Queries :
        /\ last' = [NoLookup EXCEPT
                        !.op = "get_labels", !.variable = variable,
                        !.labels = get_labels(heap, handles[1], variable)]
        /\ UNCHANGED <<heap, handles, origin, ops>>
        /\ UNCHANGED evalvars

NextRules ==
    \/ Declare
    \/ Lookup

SpecRules == InitRules /\ [][NextRules]_vars

\* the rule table of a state: its patterns, in order, with their labels
Table(h, s) ==
    [i \in 1..Len(h.State[s].rules) |->
        [key |-> h.State[s].rules[i].key,
         labels |-> h.Rule[h.State[s].rules[i].rule].labels]]

Has(table, p) == \E i \in 1..Len(table) : table[i].key = p

LabelsAt(table, p) ==
    IF Has(table, p)
    THEN table[CHOOSE i \in 1..Len(table) : table[i].key = p].labels
    ELSE {}

\* the labels of a clause other than "()"
OtherLabels(d) == Range(d.labels) \ {unit}

Clearing(d) == OtherLabels(d) = {}

\* the step is add_rules of the text made of the clauses ps
Declares(ps) ==
    /\ ops' = ops + 1
    /\ last'.op = "add_rules"
    /\ last'.comment = Concat(ps)

\* C12: a clause whose labels are all "()" leaves a rule for its pattern
\* with an empty label set, whatever labels the pattern had; a clause that
\* mixes "()" with other labels stores exactly the other labels ("()" is
\* never a label of a rule), so that `a: (), l. b: ().` on a new state gives
\* a the labels {l} and b none, and `*: ().` then clears both.
C12_ClearingRule ==
    /\ [][\A d \in Declarations :
            Declares(<<d>>) =>
                LET before == Table(heap, handles[1])
                    after == Table(heap', handles[1])
                IN  /\ Clearing(d) =>
                        /\ Has(after, d.pattern)
                        /\ LabelsAt(after, d.pattern) = {}
                        /\ \A n \in Queries :
                              re_search(Rule(d.pattern, {}).regex, n) =>
                                get_labels(heap', handles[1], n) = {}
                    /\ (~Clearing(d) /\ unit \in Range(d.labels)) =>
                        LabelsAt(after, d.pattern)
                          = LabelsAt(before, d.pattern) \cup OtherLabels(d)
         ]_vars
    /\ [][Declares(<<Decl(<<"a">>, <<unit, low>>), Decl(<<"b">>, <<unit>>)>>)
            => /\ LabelsAt(Table(heap', handles[1]), <<"b">>) = {}
               /\ Has(Table(heap', handles[1]), <<"b">>)
               /\ ops = 0 =>
                    /\ get_labels(heap', handles[1], <<"a">>) = {low}
                    /\ get_labels(heap', handles[1], <<"b">>) = {}
         ]_vars
    /\ [](\A r \in 1..Len(heap.Rule) : unit \notin heap.Rule[r].labels)

\* C12 witness: a clause of "()" only has replaced the rule of a pattern
\* that had labels
C12_Witness ==
    /\ last.op = "add_rules"
    /\ last.comment = Concat(<<Decl(<<"a">>, <<unit>>)>>)
    /\ LabelsAt(Table(heap, handles[1]), <<"a">>) = {}
    /\ Has(Table(heap, handles[1]), <<"a">>)
    /\ \E r \in 1..Len(heap.Rule) :
          /\ heap.Rule[r] = Rule(<<"a">>, {high, med})
          /\ \A i \in 1..Len(heap.State[handles[1]].rules) :
                heap.State[handles[1]].rules[i].rule # r

\* C13: declaring a clause with at least one label other than "()" for a
\* pattern is additive: the label set of the pattern becomes its previous
\* label set (empty if it had no rule) united with the new labels, every
\* other rule is left as it was, no label is removed, and declaring the
\* clause a second time changes nothing.
C13_Additive ==
    [][\A d \in Declarations :
        (Declares(<<d>>) /\ ~Clearing(d)) =>
            LET before == Table(heap, handles[1])
                after == Table(heap', handles[1])
            IN  /\ LabelsAt(after, d.pattern)
                      = LabelsAt(before, d.pattern) \cup OtherLabels(d)
                /\ Len(after) = IF Has(before, d.pattern)
                                THEN Len(before) ELSE Len(before) + 1
                /\ \A i \in 1..Len(before) :
                      /\ after[i].key = before[i].key
                      /\ before[i].labels \subseteq after[i].labels
                      /\ before[i].key # d.pattern => after[i] = before[i]
                /\ (last.op = "add_rules" /\ last.comment = last'.comment) =>
                      after = before
    ]_vars

\* C13 witness: a clause has given a second label to a pattern that had one
C13_Witness ==
    /\ ops = 2
    /\ last.op = "add_rules"
    /\ last.comment = Concat(<<Decl(<<"a">>, <<med>>)>>)
    /\ Table(heap, handles[1]) = << [key |-> <<"a">>, labels |-> {high, med}] >>

\* the step is dst.combine(src) of the driver
Combines(dst, src) ==
    /\ ops' = ops + 1
    /\ last'.op = "combine"
    /\ last'.self = dst
    /\ last'.other = src

\* C14: after dst.combine(src) the PC of dst is the union of the two PCs;
\* for every pattern of src the label set of the pattern in dst is the
\* union of the label set dst had for it (empty if it had no rule) and the
\* one of src, clearing rules included; the rules of dst for the other
\* patterns, and the order of its table, are unchanged.
C14_Combine ==
    [][\A dst, src \in 1..Len(handles) :
        Combines(dst, src) =>
            LET before == Table(heap, handles[dst])
                other == Table(heap, handles[src])
                after == Table(heap', handles[dst])
            IN  /\ get_pc(heap', handles[dst])
                      = get_pc(heap, handles[dst]) \cup get_pc(heap, handles[src])
                /\ \A i \in 1..Len(other) :
                      /\ Has(after, other[i].key)
                      /\ LabelsAt(after, other[i].key)
                            = LabelsAt(before, other[i].key) \cup other[i].labels
                /\ \A i \in 1..Len(before) :
                      /\ after[i].key = before[i].key
                      /\ ~Has(other, before[i].key) => after[i] = before[i]
                /\ \A i \in 1..Len(after) :
                      Has(before, after[i].key) \/ Has(other, after[i].key)
    ]_vars

\* C14 witness: a combine has united the labels of a rule of dst with a
\* clearing rule of src for the same pattern
C14_Witness ==
    /\ last.op = "combine"
    /\ Has(Table(heap, handles[last.other]), <<"a">>)
    /\ LabelsAt(Table(heap, handles[last.other]), <<"a">>) = {}
    /\ LabelsAt(Table(heap, handles[last.self]), <<"a">>) # {}

\* C15: combine never modifies its argument and inserts clones of its
\* rules: dst.combine(src) leaves the PC of src and the labels of every name
\* in src as they were, and so does an add_rules, combine or update_pc call
\* applied to dst after it.
C15_ArgumentUnchanged ==
    [][\A dst, src \in 1..Len(handles) :
        /\ Combines(dst, src) => SameLabelsAndPc(handles[src])
        /\ (/\ last.op = "combine"
            /\ last.self = dst
            /\ last.other = src
            /\ ops' = ops + 1
            /\ last'.op \in Mutators
            /\ last'.self = dst) => SameLabelsAndPc(handles[src])
    ]_vars

\* C16: copy() returns a state whose used-names set is empty, whatever
\* names are marked used in the state that is copied.
C16_CopyResetsUsed ==
    [][(ops' = ops + 1 /\ last'.op = "copy") =>
          heap'.State[handles'[Len(handles')]].used = {}
    ]_vars

\* every violation recorded so far, in any warnings list
Violations ==
    UNION { Range(heap.list[l]) : l \in 1..Len(heap.list) }

\* no rule of the state the violation was recorded in matches its target
Untracked(e) == Matching(heap, e.state, e.var_to.name) = {}

\* a label set that is absent (None) is not a set of labels
Absent(labels) == labels \notin SUBSET {high, med, low}

\* C17 as stated: the descriptor of the target of a violation has no label
\* set (None) when no rule matches the name, as for the callee print of
\* test_implicit_flow_function, and an empty one when the name is cleared.
C17_UntrackedIsNone ==
    \A e \in Violations : Untracked(e) <=> Absent(e.var_to.labels)

\* C17 as amended: the descriptor of the target of a violation carries the
\* set get_labels returns for the name, never None: it is empty both for a
\* name that no rule matches and for a name that a clearing rule matches,
\* so the two are not told apart; for the callee print of
\* test_implicit_flow_function it is the empty set.
C17_LabelsOfTarget ==
    /\ \A e \in Violations :
          /\ ~Absent(e.var_to.labels)
          /\ e.var_to.labels = get_labels(heap, e.state, e.var_to.name)
          /\ Untracked(e) => e.var_to.labels = {}
          /\ (\E rule \in Matching(heap, e.state, e.var_to.name) :
                rule.labels = {}) => e.var_to.labels = {}
    /\ ResultIs(implicit_flow_function,
                << <<"ImplicitFlowError", FlowVar(id_print, {})>> >>)

\* C17 witness: a run has returned a violation for a cleared name and one
\* for an untracked name, with the same descriptor but for the name
C17_Witness ==
    /\ phase = "done"
    /\ \E i, j \in 1..Len(result) :
          /\ ~Untracked(result[i])
          /\ Untracked(result[j])
          /\ result[i].var_to.labels = {}
          /\ result[j].var_to.labels = {}

\* what declaring the well-formed clause d makes of a rule table
Declared(table, d) ==
    LET labels == IF Clearing(d) THEN {}
                  ELSE LabelsAt(table, d.pattern) \cup OtherLabels(d)
    IN  IF Has(table, d.pattern)
        THEN [i \in 1..Len(table) |->
                IF table[i].key = d.pattern
                THEN [key |-> d.pattern, labels |-> labels] ELSE table[i]]
        ELSE Append(table, [key |-> d.pattern, labels |-> labels])

RECURSIVE DeclaredAll(_, _)
DeclaredAll(table, ds) ==
    IF ds = <<>> THEN table
    ELSE DeclaredAll(Declared(table, Head(ds)), Tail(ds))

\* C18: add_rules skips a malformed clause (no colon, more than one colon,
\* no pattern, no label after the colon) and goes on: the rule table after
\* a text is the one that declaring its well-formed clauses alone, in their
\* order, gives; a text of malformed clauses only, a clause without labels
\* included, changes nothing.
C18_MalformedSkipped ==
    [][\A ps \in PieceSeqs :
        Declares(ps) =>
            /\ Table(heap', handles[1])
                  = DeclaredAll(Table(heap, handles[1]),
                                SelectSeq(ps, WellFormed))
            /\ SelectSeq(ps, WellFormed) = <<>> => heap' = heap
    ]_vars

\* C18 witness: a text whose first clause has two colons and whose second
\* clause is well-formed has declared the rule of the second
C18_Witness ==
    /\ last.op = "add_rules"
    /\ last.comment = Concat(<<Bad(<<"a", ":", " ", "h", ":", " ", "m">>),
                               Decl(<<"b">>, <<high>>)>>)
    /\ Table(heap, handles[1]) = << [key |-> <<"b">>, labels |-> {high}] >>

\* the pattern matches the whole name, "*" standing for any run of
\* characters and every other character for itself
RECURSIVE Glob(_, _)
Glob(pattern, name) ==
    IF pattern = <<>> THEN name = <<>>
    ELSE IF Head(pattern) = "*"
    THEN \E k \in 0..Len(name) :
            Glob(Tail(pattern), SubSeq(name, k + 1, Len(name)))
    ELSE /\ name # <<>>
         /\ Head(name) = Head(pattern)
         /\ Glob(Tail(pattern), Tail(name))

\* the label sets of the rules of the table whose pattern matches the name
GlobLabels(table, name) ==
    { table[i].labels : i \in { k \in 1..Len(table) : Glob(table[k].key, name) } }

\* after the one text, every name looked up has the labels iff it is in hits
Example(d, hits) ==
    (/\ last.op = "get_labels"
     /\ Table(heap, handles[1])
          = << [key |-> d.pattern, labels |-> OtherLabels(d)] >>)
    => last.labels = IF last.variable \in hits THEN OtherLabels(d) ELSE {}

\* C19: a rule applies to a name iff its pattern matches the whole name,
\* each "*" matching any run of characters, empty or not, and every other
\* character itself: `a*ble` matches acceptable but neither a nor
\* another_var, `a*` matches a and another_variable, `*` matches every name.
C19_WholeName ==
    /\ \A i \in 1..Len(heap.State[handles[1]].rules) :
          \A name \in Queries :
              applies_to(heap.Rule[heap.State[handles[1]].rules[i].rule], name)
                <=> Glob(heap.State[handles[1]].rules[i].key, name)
    /\ last.op = "get_labels" =>
          last.labels =
              IF {} \in GlobLabels(Table(heap, handles[1]), last.variable)
              THEN {}
              ELSE UNION GlobLabels(Table(heap, handles[1]), last.variable)
    /\ Example(Decl(<<"a", "*", "b", "l", "e">>, <<low>>),
               { <<"a", "b", "l", "e">>, <<"a", "c", "c", "e", "p", "t", "a", "b", "l", "e">>,
                 <<"a", "n", "o", "t", "h", "e", "r", "_", "v", "a", "r", "i", "a", "b", "l", "e">> })
    /\ Example(Decl(<<"a", "*">>, <<med>>), Queries \ { <<"b">>, <<"/", "w", ":", "E">> })
    /\ Example(Decl(<<"*">>, <<low>>), Queries)
    /\ Example(Decl(<<"b">>, <<high>>), { <<"b">> })

\* C19 witness: acceptable was looked up in a table whose only rule has the
\* pattern a*ble
C19_Witness ==
    /\ last.op = "get_labels"
    /\ last.variable = <<"a", "c", "c", "e", "p", "t", "a", "b", "l", "e">>
    /\ last.labels = {low}
    /\ Table(heap, handles[1])
          = << [key |-> <<"a", "*", "b", "l", "e">>, labels |-> {low}] >>

\* an annotation comment, and the text after its prefix
IsAnnotation(token) ==
    /\ token.type = "COMMENT"
    /\ startswith(lstrip(Tail(token.string)), FLOWPY_PREFIX)

AnnotationText(token) ==
    removeprefix(lstrip(Tail(token.string)), FLOWPY_PREFIX)

\* the tokens of a source that are annotations or neither comments nor
\* layout, up to the end of the input
Significant(source) ==
    SelectSeq(tokenize(source),
              LAMBDA t : \/ IsAnnotation(t)
                         \/ t.type \notin {"COMMENT", "NL", "NEWLINE", "INDENT",
                                           "DEDENT", "ENDMARKER"})

\* the runs of annotations of a token sequence, in order, each with the
\* scope it belongs to: the function whose def follows it, or the top level
RECURSIVE Runs(_, _)
Runs(tokens, run) ==
    IF tokens = <<>>
    THEN IF run = <<>> THEN <<>>
         ELSE << [scope |-> MAIN_SCRIPT, texts |-> run] >>
    ELSE IF IsAnnotation(Head(tokens))
    THEN Runs(Tail(tokens), Append(run, AnnotationText(Head(tokens))))
    ELSE IF run = <<>> THEN Runs(Tail(tokens), <<>>)
    ELSE IF Head(tokens).string = <<"d", "e", "f">> /\ Len(tokens) >= 2
    THEN << [scope |-> tokens[2].string, texts |-> run] >>
         \o Runs(SubSeq(tokens, 3, Len(tokens)), <<>>)
    ELSE << [scope |-> MAIN_SCRIPT, texts |-> run] >>
         \o Runs(Tail(tokens), <<>>)

\* a new rule state in which the texts of a run are declared
RECURSIVE RunDeclared(_, _, _)
RunDeclared(h, s, texts) ==
    IF texts = <<>> THEN h
    ELSE RunDeclared(add_rules(h, s, Head(texts)), s, Tail(texts))

RunTable(texts) ==
    LET h == State(EmptyHeap)
    IN  Table(RunDeclared(h, NewState(h), texts), NewState(h))

\* the top-level runs merged, one after the other, into an empty state
RECURSIVE Merged(_, _)
Merged(h, runs) ==
    IF runs = <<>> THEN h
    ELSE LET h1 == State(h)
             h2 == RunDeclared(h1, NewState(h1), Head(runs).texts)
         IN  Merged(IF Head(runs).scope = MAIN_SCRIPT
                    THEN combine(h2, 1, NewState(h1)) ELSE h,
                    Tail(runs))

\* the scanner has just run on this source
Scanned(source) ==
    /\ phase = "init"
    /\ tree = ast_parse(source)
    /\ heap = Source_parse(source).h
    /\ functions = Source_parse(source).functions

\* C20: a run of annotation comments followed, comments and layout apart,
\* by `def` and a name is bound as the rule state of that function and adds
\* nothing to the top-level scope; a run followed by any other token or by
\* the end of the input is merged into the top-level scope; every run
\* starts from an empty rule state.
C20_Scanner ==
    \A source \in Sources :
        Scanned(source) =>
            LET runs == Runs(Significant(source), <<>>)
                bound == { i \in 1..Len(runs) : runs[i].scope # MAIN_SCRIPT }
            IN  /\ DOMAIN functions
                      = {MAIN_SCRIPT} \cup { runs[i].scope : i \in bound }
                /\ \A i \in bound :
                      (\A j \in bound : j > i => runs[j].scope # runs[i].scope)
                      => Table(heap, functions[runs[i].scope])
                            = RunTable(runs[i].texts)
                /\ Table(heap, functions[MAIN_SCRIPT])
                      = Table(Merged(State(EmptyHeap), runs), 1)

\* C20 witness: the scanner has bound one run to a function and merged
\* three runs, one of two comments, one from the body of the function and
\* one that ends the input, into the top-level scope
C20_Witness ==
    /\ phase = "init"
    /\ DOMAIN functions = {MAIN_SCRIPT, id_f}
    /\ Table(heap, functions[id_f]) = << [key |-> id_b, labels |-> {high}] >>
    /\ Table(heap, functions[MAIN_SCRIPT])
          = << [key |-> id_a, labels |-> {high}],
               [key |-> id_d, labels |-> {med}],
               [key |-> id_b, labels |-> {low}],
               [key |-> id_e, labels |-> {high}] >>

-----------------------------------------------------------------------------
(* The flow evaluator, continued *)

\* the program with three functions and assignments around them
three_functions ==
    CHOOSE source \in Others :
        /\ Len(source) = 7
        /\ source[4].kind = "FunctionDef"
        /\ source[4].name = id_foo

\* table `after` is table `before` with the rules of `other` merged in
IsMerge(before, other, after) ==
    /\ \A i \in 1..Len(other) :
          /\ Has(after, other[i].key)
          /\ LabelsAt(after, other[i].key)
                = LabelsAt(before, other[i].key) \cup other[i].labels
    /\ Len(after) >= Len(before)
    /\ \A i \in 1..Len(before) :
          /\ after[i].key = before[i].key
          /\ ~Has(other, before[i].key) => after[i] = before[i]
    /\ \A i \in 1..Len(after) :
          Has(before, after[i].key) \/ Has(other, after[i].key)

\* the labels a state gives to every name
Lookups(h, s) == View(h, s).labels

\* the step starts the evaluation of a function definition
StartsFunctionDef ==
    /\ phase = "running"
    /\ stack # <<>>
    /\ Len(stack') = Len(stack) + 1
    /\ stack'[Len(stack')].node.kind = "FunctionDef"

\* C21: the rules bound to a function are merged into the copy of the
\* enclosing state on which the function definition is evaluated; every
\* evaluator under it, in nested blocks and nested function definitions
\* too, has these rules in its state; the states of the evaluators outside
\* the function keep their label lookups, and the rule state stored for a
\* function never changes.
C21_FunctionRules ==
    /\ [][StartsFunctionDef =>
            LET new == stack'[Len(stack')].state
                name == stack'[Len(stack')].node.name
                before == Table(heap, Top.state)
            IN  /\ new = Len(heap.State) + 1
                /\ \A k \in 1..Len(stack) : stack[k].state # new
                /\ get_pc(heap', new) = get_pc(heap, Top.state)
                /\ Lookups(heap', Top.state) = Lookups(heap, Top.state)
                /\ Table(heap', Top.state) = before
                /\ IF name \in DOMAIN functions
                   THEN IsMerge(before, Table(heap, functions[name]),
                                Table(heap', new))
                   ELSE Table(heap', new) = before
         ]_vars
    /\ [][\A f \in DOMAIN functions :
            /\ Table(heap', functions[f]) = Table(heap, functions[f])
            /\ get_pc(heap', functions[f]) = get_pc(heap, functions[f])
         ]_vars
    /\ [](\A k \in 2..Len(stack) :
            /\ stack[k].node.kind # "FunctionDef" =>
                  /\ Table(heap, stack[k].state)
                        = Table(heap, stack[k - 1].state)
                  /\ Lookups(heap, stack[k].state)
                        = Lookups(heap, stack[k - 1].state)
            /\ (\A j \in 2..k : stack[j].node.kind # "FunctionDef") =>
                  Lookups(heap, stack[k].state)
                     = [n \in AllNames |->
                          get_labels(heap, functions[MAIN_SCRIPT], n)])
    /\ [](\A k \in 1..Len(stack) :
            (/\ stack[k].node.kind = "FunctionDef"
             /\ stack[k].node.name \in DOMAIN functions) =>
                LET rules == Table(heap, functions[stack[k].node.name])
                IN  \A l \in k..Len(stack) : \A i \in 1..Len(rules) :
                        /\ Has(Table(heap, stack[l].state), rules[i].key)
                        /\ rules[i].labels
                             \subseteq LabelsAt(Table(heap, stack[l].state),
                                                rules[i].key))
    /\ []((phase = "done" /\ tree = ast_parse(implicit_flow_nested)) =>
            /\ Len(result) = 3
            /\ result[1].type = "ImplicitFlowError"
            /\ get_pc(heap, result[1].state) = {high}
            /\ result[1].var_to.labels = {low}
            /\ result[2].type = "ImplicitFlowError")
    /\ []((phase = "done" /\ tree = ast_parse(three_functions)) =>
            [i \in 1..Len(result) |-> <<result[i].line, result[i].var_to>>]
                = << <<2, FlowVar(id_b, {})>>, <<11, FlowVar(id_b, {med})>>,
                     <<12, FlowVar(id_b, {})>> >>)

\* C21 witness: a target is checked in a function defined under a loop of
\* another function, with the label the rule of the outer function gives
\* it, which the top-level state does not give
C21_Witness ==
    /\ Running("Name")
    /\ Top.node = Store(id_b, 8)
    /\ \E k \in 2..Len(stack) : \E l \in (k + 1)..Len(stack) :
          /\ stack[k].node.kind = "FunctionDef"
          /\ stack[l].node.kind = "FunctionDef"
          /\ stack[k].node.name \in DOMAIN functions
          /\ stack[l].node.name \notin DOMAIN functions
    /\ get_labels(heap, Top.state, id_b) = {high}
    /\ get_labels(heap, stack[1].state, id_b) = {}

\* the names read in the arguments of a call
ArgumentNames(call) ==
    UNION { LoadNames(call.args[i]) : i \in 1..Len(call.args) }

\* the arguments are made of names, constants, comparisons and tuples
PlainArguments(call) == \A i \in 1..Len(call.args) : Plain(call.args[i])

\* C22 as stated: a target assigned from a call is checked against the
\* union of the labels of all names read in all arguments of the call.
C22_AllArgumentNames ==
    (AtScalarTarget /\ Assignment.node.value.kind = "Call") =>
        LabelsOf(heap, Top.state, ArgumentNames(Assignment.node.value))
            \subseteq get_used(heap, Top.state)

\* C22 as amended: the names that the evaluation of each argument of a
\* Call registers as used are added to the used names of the state of the
\* Call, which the Call returns; for arguments made of names, constants,
\* comparisons and tuples these are all the names read in them, so that a
\* target assigned from such a call is checked against the union of the
\* labels of all names read in its arguments, and an If or While whose
\* test is such a call raises its PC by that union.
C22_ArgumentNames ==
    /\ [][Running("Call") =>
            LET node == Top.node
                s == Top.state
            IN  /\ Top.at # "loop" =>
                      heap'.State[s].used = heap.State[s].used
                /\ Top.at = "loop" =>
                      /\ heap'.State[s].used
                            = heap.State[s].used \cup heap.State[ret].used
                      /\ Plain(node.args[Top.i]) =>
                            heap'.State[s].used
                               = heap.State[s].used
                                    \cup LoadNames(node.args[Top.i])
                /\ (phase' = "running" /\ stack' = Callers) =>
                      /\ ret' = s
                      /\ PlainArguments(node) =>
                            ArgumentNames(node) \subseteq heap'.State[s].used
         ]_vars
    /\ []((/\ AtScalarTarget
           /\ Assignment.node.value.kind = "Call"
           /\ PlainArguments(Assignment.node.value)) =>
            /\ heap.State[Top.state].used
                  = ArgumentNames(Assignment.node.value)
            /\ get_used(heap, Top.state)
                  = LabelsOf(heap, Top.state,
                             ArgumentNames(Assignment.node.value)))
    /\ [][(/\ phase = "running" /\ stack # <<>>
           /\ Top.node.kind \in {"If", "While"}
           /\ Top.at = "test"
           /\ Top.node.test.kind = "Call"
           /\ PlainArguments(Top.node.test)) =>
            get_pc(heap', Top.state)
               = get_pc(heap, Top.state)
                    \cup LabelsOf(heap, Top.state,
                                  ArgumentNames(Top.node.test))
         ]_vars

\* C22 witness: an If whose test is a call with two arguments, a
\* comparison and a tuple, has raised its PC by the labels of the names
\* read in both
C22_Witness ==
    /\ phase = "running"
    /\ stack # <<>>
    /\ Top.node.kind = "If"
    /\ Top.at = "loop"
    /\ Top.node.test.kind = "Call"
    /\ Len(Top.node.test.args) = 2
    /\ get_pc(heap, Top.state) = {high, med}

\* C23: evaluating a Call whose callee is a name f registers f as used: f
\* is in the used names of the state the Call returns, and so in the used
\* names a target assigned from the call is checked against.
C23_CalleeUsed ==
    /\ [][(/\ Running("Call")
           /\ Top.node.func.kind = "Name"
           /\ phase' = "running"
           /\ stack' = Callers) =>
            Top.node.func.id \in heap'.State[ret'].used
         ]_vars
    /\ []((/\ AtScalarTarget
           /\ Assignment.node.value.kind = "Call"
           /\ Assignment.node.value.func.kind = "Name") =>
            Assignment.node.value.func.id \in heap.State[Top.state].used)

\* C24: the state a recorded violation references is not changed after the
\* violation was recorded: no later step changes its PC or its map from
\* used names to label sets, so that what is read from it when the result
\* is returned is what it held when the violation was recorded.
C24_ViolationStateFrozen ==
    [][\A l \in 1..Len(heap.list) : \A i \in 1..Len(heap.list[l]) :
        LET s == heap.list[l][i].state
        IN  /\ get_pc(heap', s) = get_pc(heap, s)
            /\ get_used_vars(heap', s) = get_used_vars(heap, s)
    ]_vars

\* C25: a conditional expression evaluated in state s evaluates its test
\* on a copy of s, raises PC(s) by the used-labels of the test, evaluates
\* each branch on its own copy of the elevated s, and returns s; while a
\* branch is evaluated and when it returns, the PC, the used names and the
\* labels of s stay as they are, so the names read in the branches are not
\* in the used names of the state returned.
C25_IfExpBranches ==
    /\ [][Running("IfExp") =>
            LET node == Top.node
                s == Top.state
            IN  /\ Top.at = "start" =>
                      /\ StartsOnCopy(node.test, s)
                      /\ View(heap', s) = View(heap, s)
                /\ Top.at = "test" =>
                      /\ get_pc(heap', s)
                            = get_pc(heap, s) \cup get_used(heap, ret)
                      /\ Lookups(heap', s) = Lookups(heap, s)
                      /\ StartsOnCopy(node.body, s)
                /\ Top.at = "body" =>
                      /\ View(heap', s) = View(heap, s)
                      /\ StartsOnCopy(node.orelse, s)
                      /\ stack'[Len(stack')].state # ret
                /\ Top.at = "orelse" =>
                      /\ View(heap', s) = View(heap, s)
                      /\ stack' = Callers
                      /\ ret' = s
         ]_vars
    /\ [][\A k \in 1..(Len(stack) - 1) :
            stack[k].node.kind = "IfExp" =>
                View(heap', stack[k].state) = View(heap, stack[k].state)
         ]_vars

\* C25 witness: a conditional expression is about to return; its PC was
\* raised by its test, a call in its first branch read a name and was
\* recorded as a violation under that PC, and the name is not among the
\* used names of the state of the expression
C25_Witness ==
    /\ Running("IfExp")
    /\ Top.at = "orelse"
    /\ get_pc(heap, Top.state) = {high}
    /\ id_d \notin heap.State[Top.state].used
    /\ \E t \in (Top.state + 1)..Len(heap.State) :
          /\ id_d \in heap.State[t].used
          /\ \E i \in 1..Len(get_warnings(heap, Top.state)) :
                /\ get_warnings(heap, Top.state)[i].state = t
                /\ get_warnings(heap, Top.state)[i].node.kind = "Call"

\* a node of a kind from_AST has no evaluator for
Unsupported(node) == node.kind \notin Dispatched

\* C26: evaluating a node of an unsupported kind records no violation,
\* changes no state and returns the state it was given, and the evaluation
\* goes on: a target assigned from an unsupported expression (one that
\* the assignment evaluates, not a list literal, which it takes apart) is
\* checked against no used name, a block whose test is unsupported keeps
\* its PC,
\* and test_explicit_flow_nested yields its one violation, for `b = a`.
C26_Unsupported ==
    /\ [][(phase = "running" /\ stack # <<>> /\ Unsupported(Top.node)) =>
            /\ heap' = heap
            /\ stack' = Callers
            /\ ret' = Top.state
            /\ phase' = "running"
         ]_vars
    /\ []((/\ AtScalarTarget
           /\ Unsupported(Assignment.node.value)
           /\ ~hasattr_elts(Assignment.node.value)) =>
            /\ heap.State[Top.state].used = {}
            /\ View(heap, Top.state) = View(heap, Assignment.state))
    /\ [][(/\ phase = "running" /\ stack # <<>>
           /\ Top.node.kind \in BlockKinds
           /\ Top.at \in {"test", "iter"}
           /\ Unsupported(TestOf(Top.node))) =>
            /\ View(heap', Top.state) = View(heap, Top.state)
            /\ ret = Len(heap.State)
            /\ View(heap, ret) = View(heap, Top.state)
         ]_vars
    /\ [](ResultIs(explicit_flow_nested,
                   << <<"ExplicitFlowError", FlowVar(id_b, {})>> >>))
    /\ []((phase = "done" /\ tree = ast_parse(explicit_flow_nested)) =>
            /\ result[1].line = 8
            /\ get_pc(heap, result[1].state) = {})

\* C26 witness: a target is about to be checked after its right-hand side,
\* an unsupported expression that reads a labelled name, was evaluated
C26_Witness ==
    /\ AtScalarTarget
    /\ Unsupported(Assignment.node.value)
    /\ ~hasattr_elts(Assignment.node.value)
    /\ LabelsOf(heap, Top.state, LoadNames(Assignment.node.value)) # {}
    /\ get_used(heap, Top.state) = {}
    /\ ret = Assignment.states[1]

Min(a, b) == IF a <= b THEN a ELSE b

RECURSIVE Flatten(_)
Flatten(seqs) ==
    IF seqs = <<>> THEN <<>> ELSE Head(seqs) \o Flatten(Tail(seqs))

\* the right-hand sides of an assignment: the elements of a sequence
\* literal, or the value
RhsNodes(node) ==
    IF hasattr_elts(node.value) THEN node.value.elts ELSE <<node.value>>

\* the targets under one target of an assignment
AllTargetNodes(tgt) == IF hasattr_elts(tgt) THEN tgt.elts ELSE <<tgt>>

\* those of them that have one of the m states of the right-hand side
TargetNodes(tgt, m) ==
    IF hasattr_elts(tgt)
    THEN SubSeq(tgt.elts, 1, Min(m, Len(tgt.elts)))
    ELSE <<tgt>>

\* the statements, tests, right-hand sides, targets, operands, elements
\* and arguments directly under a node
Under(node) ==
    CASE node.kind \in {"Module", "FunctionDef"} -> node.body
      [] node.kind = "If" -> <<node.test>> \o node.body \o node.orelse
      [] node.kind = "While" -> <<node.test>> \o node.body
      [] node.kind = "For" -> <<node.target, node.iter>> \o node.body
      [] node.kind = "Assign" ->
            RhsNodes(node)
            \o Flatten([i \in 1..Len(node.targets) |->
                          AllTargetNodes(node.targets[i])])
      [] node.kind = "Expr" -> <<node.value>>
      [] node.kind = "Call" -> <<node.func>> \o node.args
      [] node.kind = "IfExp" -> <<node.test, node.body, node.orelse>>
      [] node.kind = "Compare" -> node.comparators \o <<node.left>>
      [] node.kind = "Tuple" -> node.elts
      [] OTHER -> <<>>

\* the same without the target of a For and without the elements of a
\* sequence target that have no state of the right-hand side
Evaluated(node) ==
    CASE node.kind = "For" -> <<node.iter>> \o node.body
      [] node.kind = "Assign" ->
            RhsNodes(node)
            \o Flatten([i \in 1..Len(node.targets) |->
                          TargetNodes(node.targets[i], Len(RhsNodes(node)))])
      [] OTHER -> Under(node)

\* the number of nodes whose evaluation a running evaluator has started
Started(f) ==
    CASE f.at = "start" -> 0
      [] f.at \in {"test", "iter", "func", "value"} -> 1
      [] f.at = "body" -> 2
      [] f.at = "orelse" -> 3
      [] f.at = "elts" -> Len(f.states) + 1
      [] f.at = "loop" ->
            IF f.node.kind \in {"If", "While", "For", "Call"}
            THEN 1 + f.i ELSE f.i
      [] f.at = "targets" ->
            Len(RhsNodes(f.node))
            + Len(Flatten([t \in 1..(f.i - 1) |->
                             TargetNodes(f.node.targets[t], Len(f.states))]))
            + (IF hasattr_elts(f.node.targets[f.i]) THEN f.j ELSE 1)

\* the run has ended, with a result or with an exception
Ended == phase \notin {"init", "running"}

\* an evaluator returns to its caller in this step
Returning ==
    /\ phase = "running"
    /\ stack # <<>>
    /\ phase' = "running"
    /\ stack' = Callers

\* the sum of the numbers of a sequence
RECURSIVE SumOf(_)
SumOf(ns) == IF ns = <<>> THEN 0 ELSE Head(ns) + SumOf(Tail(ns))

\* the number of steps the evaluation of a node takes: one to start each
\* node evaluated under it, those of these nodes, and one to return
RECURSIVE Steps(_)
Steps(node) ==
    LET nodes == Evaluated(node)
    IN  1 + Len(nodes) + SumOf([i \in 1..Len(nodes) |-> Steps(nodes[i])])

\* the steps a running evaluator has yet to take, the evaluations it has
\* yet to start included
Rest(f) ==
    LET nodes == Evaluated(f.node)
        todo == SubSeq(nodes, Started(f) + 1, Len(nodes))
    IN  1 + Len(todo) + SumOf([i \in 1..Len(todo) |-> Steps(todo[i])])

\* the steps FlowPy.run has yet to take if nothing is raised
RemainingAt(ph, st, tr) ==
    CASE ph = "init" -> Steps(tr) + 2
      [] ph = "running" -> 1 + SumOf([k \in 1..Len(st) |-> Rest(st[k])])
      [] OTHER -> 0

Remaining == RemainingAt(phase, stack, tree)

Parts(node) ==
    CASE node.kind \in {"BinOp", "Attribute", "List"} -> Children(node)
      [] node.kind = "Return" -> <<node.value>>
      [] OTHER -> Under(node)

\* the identifiers that occur in load context in a tree
RECURSIVE NamesRead(_)
NamesRead(node) ==
    IF node.kind = "Name"
    THEN IF node.ctx = "Load" THEN {node.id} ELSE {}
    ELSE UNION { NamesRead(Parts(node)[i]) : i \in 1..Len(Parts(node)) }

\* C28: in every state reachable during an evaluation, every member of the
\* used names of every state is an identifier that occurs in load context
\* in the tree analysed; no label is among the used names.
C28_UsedAreNames ==
    phase \in {"running", "done"} =>
        \A s \in 1..Len(heap.State) :
            heap.State[s].used \subseteq NamesRead(tree)

\* the nodes for which a violation has been recorded
Blamed ==
    UNION { { heap.list[l][i].node : i \in 1..Len(heap.list[l]) } :
              l \in 1..Len(heap.list) }

\* the sequence targets of the assignments of a tree that have at least
\* as many elements as the right-hand side yields states, with that number
RECURSIVE Destructured(_)
Destructured(node) ==
    (IF node.kind = "Assign"
     THEN { [elts |-> node.targets[t].elts, m |-> Len(RhsNodes(node))] :
              t \in { u \in 1..Len(node.targets) :
                        /\ hasattr_elts(node.targets[u])
                        /\ Len(RhsNodes(node))
                              <= Len(node.targets[u].elts) } }
     ELSE {})
    \cup UNION { Destructured(Parts(node)[i]) : i \in 1..Len(Parts(node)) }

\* C29: when a sequence target has k elements and the right-hand side
\* yields m <= k states (one per element of a sequence literal, one for
\* any other right-hand side), the elements 1..m of the target are checked
\* in turn, element i on a copy of state i and of no other, and after
\* element m the assignment goes on to its next target: the elements after
\* the m-th are not evaluated and no violation is ever recorded for them.
C29_Truncated ==
    /\ [](phase \in {"running", "done"} =>
            \A d \in Destructured(tree) :
                \A i \in (d.m + 1)..Len(d.elts) : d.elts[i] \notin Blamed)
    /\ [](AtElementTarget =>
            LET tgt == Assignment.node.targets[Assignment.i]
                j == Assignment.j
                m == Len(Assignment.states)
            IN  m <= Len(tgt.elts) =>
                  /\ m = Len(RhsNodes(Assignment.node))
                  /\ j <= m
                  /\ Top.node = tgt.elts[j]
                  /\ Top.state \notin Range(Assignment.states)
                  /\ View(heap, Top.state)
                        = View(heap, Assignment.states[j]))
    /\ [][Running("Assign") =>
            LET after == IF Len(stack') >= Len(stack)
                         THEN stack'[Len(stack)] ELSE Top
                m == Len(after.states)
            IN  /\ (/\ Len(stack') > Len(stack)
                    /\ after.at = "targets"
                    /\ hasattr_elts(Top.node.targets[after.i])
                    /\ m <= Len(Top.node.targets[after.i].elts)) =>
                      after.j = IF Top.at = "targets" /\ after.i = Top.i
                                THEN Top.j + 1 ELSE 1
                /\ (/\ Top.at = "targets"
                    /\ hasattr_elts(Top.node.targets[Top.i])
                    /\ m <= Len(Top.node.targets[Top.i].elts)) =>
                      IF Top.j < m
                      THEN /\ Len(stack') > Len(stack)
                           /\ after.i = Top.i
                      ELSE \/ stack' = Callers
                           \/ after.i = Top.i + 1
         ]_vars

\* C29 witness: the scalar target that follows a sequence target of two
\* elements is about to be checked; the right-hand side gave one state, a
\* violation was recorded for the first element of the sequence target and
\* the second was passed over
C29_Witness ==
    /\ AtScalarTarget
    /\ Assignment.i = 2
    /\ hasattr_elts(Assignment.node.targets[1])
    /\ Len(Assignment.node.targets[1].elts) = 2
    /\ Len(Assignment.states) = 1
    /\ Assignment.node.targets[1].elts[1] \in Blamed
    /\ Assignment.node.targets[1].elts[2] \notin Blamed
    /\ get_used(heap, Top.state) # {}

\* C30: evaluation never changes the labels of a name: no step changes the
\* rule table or the label lookups of a state that exists, and a state
\* made by a step other than the construction of a Module or FunctionDef
\* evaluator has the label lookups of the state of the evaluator that made
\* it.  `b = a` does not give b the labels of a: the later `c = b` is
\* checked against the declared labels of b, of which there are none.
C30_LabelsFixed ==
    /\ [][/\ Len(heap'.State) >= Len(heap.State)
          /\ \A s \in 1..Len(heap.State) :
                /\ Table(heap', s) = Table(heap, s)
                /\ Lookups(heap', s) = Lookups(heap, s)
         ]_vars
    /\ [][(phase = "running" /\ stack # <<>> /\ ~StartsFunctionDef) =>
            \A s \in (Len(heap.State) + 1)..Len(heap'.State) :
                /\ Lookups(heap', s) = Lookups(heap, Top.state)
                /\ Table(heap', s) = Table(heap, Top.state)
         ]_vars
    /\ [](ResultIs(b_then_c,
                   << <<"ExplicitFlowError", FlowVar(id_b, {})>> >>))
    /\ []((/\ AtScalarTarget
           /\ tree = ast_parse(b_then_c)
           /\ Top.node = Store(id_c, 3)) =>
            /\ heap.State[Top.state].used = {id_b}
            /\ get_labels(heap, Top.state, id_b) = {}
            /\ get_used(heap, Top.state) = {})

\* C30 witness: c is about to be checked in `c = b`, after the violation
\* of `b = a` was recorded
C30_Witness ==
    /\ AtScalarTarget
    /\ tree = ast_parse(b_then_c)
    /\ Top.node = Store(id_c, 3)
    /\ Store(id_b, 2) \in Blamed
    /\ heap.State[Top.state].used = {id_b}
    /\ get_labels(heap, Top.state, id_a) = {high}

====
